---------------------------- MODULE Spec2Model ----------------------------
(***************************************************************************)
(* A model of the kaspad-stratum bridge.                                   *)
(*                                                                         *)
(* Its specifications share one state:                                     *)
(*   SpecJobs  the job cache of src/stratum/jobs.rs (insert, submit,       *)
(*             resolve_pending), called concurrently by tasks that each    *)
(*             own one reply channel;                                      *)
(*   SpecLocks  the same cache with the read lock of submit held over a    *)
(*             step of its own, and FairLocks under tokio's scheduling;    *)
(*   SpecWrap  the same cache driven through more inserts than it has      *)
(*             slots;                                                      *)
(*   SpecConn  the stratum server of src/stratum/server.rs on its own:     *)
(*             acceptor, sessions and its job cache, fed by broadcast;     *)
(*   SpecAnswer  the same server with the mining.submit arm taken one      *)
(*             await at a time, and FairAnswer under tokio's scheduling;   *)
(*   SpecNotify  the same server with miners that subscribe and are told   *)
(*             of jobs through the watch cell;                             *)
(*   SpecIds   the same cache through inserts alone, some of which fail;   *)
(*   SpecWorkers  the acceptor's worker counter taken round its 16 bits;   *)
(*   SpecStartup  the program from Stratum::new on: Client::new queues its *)
(*             requests while miners connect, then main's loop runs;       *)
(*             FairStartup is SpecStartup under tokio's scheduling;        *)
(*   SpecClient  the upstream client of kaspad.rs with the node and main's *)
(*             loop, and no miner;                                         *)
(*   SpecHash  calls of RpcBlockHeader::hash, one statement at a time;     *)
(*   SpecDecode  calls of u256_from_compact_target of pow.rs, for every    *)
(*             exponent;                                                   *)
(*   SpecPow   calls of u256_from_compact_target and difficulty of pow.rs; *)
(*   SpecUint  calls of the multiplication, division and remainder of      *)
(*             U256 of uint.rs;                                            *)
(*   Spec      the program as main.rs wires it: the upstream client of     *)
(*             kaspad.rs, the supervisor loop of main.rs and the sessions  *)
(*             and job cache of src/stratum/server.rs.                     *)
(***************************************************************************)
EXTENDS Integers, Sequences, FiniteSets, TLC

(***************************************************************************)
(* Bounds of the exploration.                                              *)
(***************************************************************************)
\* submit calls explored in SpecJobs
MaxSubmits == 2
\* resolve_pending calls explored in SpecJobs
MaxResolves == 2
\* insert calls explored in SpecJobs, broadcasts in SpecConn and SpecNotify
MaxInserts == 2
\* accept calls explored in SpecConn and SpecNotify
MaxAccepts == 2
\* mining.submit requests explored in SpecConn
MaxConnSubmits == 2
\* accept calls, mining.submit and mining.subscribe requests explored in Spec
MaxWiredAccepts == 2
MaxWiredSubmits == 1
MaxWiredSubscribes == 1
\* accept calls and mining.submit requests explored in SpecStartup
MaxStartupAccepts == 1
MaxStartupSubmits == 2
\* payloads the node sends of its own accord in Spec, SpecStartup and
\* SpecClient
MaxNotifies == 1
\* mining.subscribe requests explored in SpecNotify
MaxSubscribes == 2
\* accept calls that may return a connection before the counter wraps, and
\* accept calls explored after it has wrapped, in SpecWorkers
MaxEarlyAccepts == 1
MaxLateAccepts == 1
\* insert calls explored in SpecWrap after the cache is full
MaxWrapped == 1
\* insert calls that return None explored in SpecIds
MaxFailedInserts == 1
\* submit calls explored in SpecWrap
MaxWrapSubmits == 1

(***************************************************************************)
(* Program constants.                                                      *)
(***************************************************************************)
\* jobs.rs: `if len < 256`, the number of slots of the cache
JobSlots == 256
\* the width of a job id (u8)
JobIdBits == 8

\* the tasks that call the cache of jobs.rs, each owning one reply channel
Callers == {1, 2}
\* the mining.submit requests a miner makes: one for the first slot and one,
\* with another rpc id and nonce, for the second slot, which names no
\* template until two templates are cached
Requests ==
    { [id |-> 1, job_id |-> 0, nonce |-> 1],
      [id |-> 2, job_id |-> 1, nonce |-> 2] }

\* Option<T> as a sequence of at most one element
None    == << >>
Some(x) == << x >>
IsSome(o) == o # << >>
Unwrap(o) == o[1]

\* u8::saturating_add(1)
SaturatingInc(id) == IF id + 1 < 2 ^ JobIdBits THEN id + 1 ELSE id

\* u8::wrapping_add(1)
WrapInc(id) == (id + 1) % (2 ^ JobIdBits)

\* the width of the worker counter (Wrapping<u16>)
WorkerBits == 16

VARIABLES
    next,        \* JobsInner.next
    jobs,        \* JobsInner.jobs: the cached templates, slot i at index i+1
    pending,     \* Jobs.pending: the FIFO of Pending {id, send}
    pendingLock, \* the task holding the pending mutex, 0 when it is free
    cmd,         \* every payload sent on the upstream command channel, in order
    pc,          \* per caller: where it is inside Jobs::submit
    frame,       \* per caller: the arguments and locals of its submit call, and
                 \* `wrapped`, whether more templates than slots had been
                 \* inserted when it read the cache
    recvOpen,    \* per caller: whether its reply receiver still exists
    reply,       \* per caller: the PendingResults delivered to its channel
    returns,     \* the submit calls that returned, with their result
    resolves,    \* the resolve_pending calls made, with what each popped
    lastInsert,  \* the result of the latest insert call
    nInsert,     \* insert calls made
    nInserted,   \* insert calls that returned JobParams
    nSubmit,     \* submit calls made
    cmdRead,     \* how many payloads of cmd the node has received
    inbound,     \* the payloads on the stream from the node, oldest first
    acks,        \* the SubmitBlockResponses the upstream client has handled
    clientUp,    \* whether ClientTask::run is still in its loop
    mainUp,      \* whether main is still in its message loop
    msgs,        \* the Message channel from the upstream client to main
    latest,      \* the watch cell: Option<JobParams>
    version,     \* the watch cell's version: the values sent to it so far
    worker,      \* StratumTask::run's worker counter
    sess,        \* per connection: the StratumConn, and whether it runs
    out,         \* per connection: the lines written to the socket
    handled,     \* the mining.submit requests the sessions have handled
    subs,        \* the mining.subscribe requests the sessions have handled
    nAccept,     \* accept calls that returned
    nNotify,     \* payloads the node has sent of its own accord
    hasher,      \* the call of RpcBlockHeader::hash in progress: the header,
                 \* the mode, the statements done and the BLAKE2b state
    calc         \* the latest call of a function of pow.rs or of an operator
                 \* of U256: its arguments, what it returned, and the call
                 \* before it where two are compared

\* JobsInner
cacheVars == << next, jobs, lastInsert, nInsert, nInserted >>
\* the pending FIFO of jobs.rs and the tasks that call it
fifoVars == << pending, pendingLock, pc, frame, recvOpen, reply, returns,
               resolves, nSubmit >>
\* the upstream side of the program
nodeVars == << cmdRead, inbound, acks, clientUp, mainUp, msgs, nNotify >>
\* the stratum side of the program
connVars == << latest, version, worker, sess, out, handled, subs, nAccept >>

\* the calls of pure functions in progress
callVars == << hasher, calc >>

vars == << cacheVars, fifoVars, cmd, nodeVars, connVars, callVars >>

(***************************************************************************)
(* Templates.  A block is its header (absent, or nonce plus the other      *)
(* fields) and its transactions; `body` stands for everything but the      *)
(* nonce, `hex` for whether the header's hex fields decode.                *)
(***************************************************************************)
\* a u64 as its two 32-bit halves
U64(hi, lo) == [hi |-> hi, lo |-> lo]

\* difficulty >> 32
Shr32(d) == d.hi

\* header.difficulty() of the templates the node hands out: 2^32, twice
\* that for a "hard" template, and 1 for a "low" one
Difficulty(kind) ==
    CASE kind = "hard" -> U64(2, 0)
      [] kind = "low"  -> U64(0, 1)
      [] OTHER         -> U64(1, 0)

Template(n, kind) ==
    [ body   |-> n,
      header |-> IF kind = "nohdr" THEN None
                 ELSE Some([nonce |-> 0, hex |-> (kind # "badhex"),
                            difficulty |-> Difficulty(kind),
                            timestamp |-> n]) ]

TemplateKinds == {"ok", "nohdr", "badhex"}

\* templates that also differ in difficulty
DifficultyKinds == TemplateKinds \cup {"hard", "low"}

\* RpcBlockHeader::pre_pow: the digest of everything but timestamp and nonce,
\* an error when a hex field does not decode
PrePow(block) ==
    IF Unwrap(block.header).hex THEN Some(block.body) ELSE None

\* a submit that forgets to set the nonce
NonceNotSet(block, nonce) == block

\* header.nonce = nonce on the clone
WithNonce(block, nonce) ==
    [block EXCEPT !.header = Some([Unwrap(block.header) EXCEPT !.nonce = nonce])]

\* Payload::submit_block
SubmitBlock(block, origin) ==
    [ type |-> "SubmitBlock", block |-> block, allow_non_daa_blocks |-> FALSE,
      origin |-> origin ]

NoFrame == [id |-> 0, job_id |-> 0, nonce |-> 0, wrapped |-> FALSE,
            block |-> Template(0, "nohdr")]

\* the connections the acceptor may hand out
Conns == {1, 2}

\* StratumConn as spawned (server.rs 41-51), before the connection exists;
\* `seen` is the version its watch receiver has seen, `notified` the job of
\* its latest mining.notify
NoConn == [state |-> "none", worker |-> 0, id |-> 0, subscribed |-> FALSE,
           difficulty |-> 0, seen |-> 0, notified |-> None]

(***************************************************************************)
(* The header digest of kaspad.rs: RpcBlockHeader::hash serialises the     *)
(* header field by field into a keyed BLAKE2b state of blake2b_simd, whose *)
(* arithmetic is modelled after RFC 7693.  A 64-bit word is its four       *)
(* 16-bit limbs, least significant first; a byte string is a sequence of   *)
(* numbers below 256; a hex string is the sequence of its characters, a    *)
(* hex digit by its value and any other character as NotHex.               *)
(***************************************************************************)
LimbBits == 16
Limb == 2 ^ LimbBits
\* a character of a string that is no hex digit
NotHex == 16

\* bitwise exclusive or of two numbers of n bits
RECURSIVE XorBits(_, _, _)
XorBits(a, b, n) ==
    IF n = 0 THEN 0
    ELSE ((a + b) % 2) + 2 * XorBits(a \div 2, b \div 2, n - 1)

Xor64(a, b) == [i \in 1..4 |-> XorBits(a[i], b[i], LimbBits)]

\* u64::wrapping_add
Add64(a, b) ==
    LET s1 == a[1] + b[1]
        s2 == a[2] + b[2] + (s1 \div Limb)
        s3 == a[3] + b[3] + (s2 \div Limb)
        s4 == a[4] + b[4] + (s3 \div Limb)
    IN  << s1 % Limb, s2 % Limb, s3 % Limb, s4 % Limb >>

\* u64::rotate_right by 32, 24, 16 and 63 bits
Rotr32(a) == << a[3], a[4], a[1], a[2] >>
Rotr16(a) == << a[2], a[3], a[4], a[1] >>
Rotr8(a) ==
    [i \in 1..4 |-> (a[i] \div 256) + (a[(i % 4) + 1] % 256) * 256]
Rotr24(a) == Rotr8(Rotr16(a))
Rotr63(a) ==
    [i \in 1..4 |-> ((a[i] * 2) % Limb) + (a[((i + 2) % 4) + 1] \div (Limb \div 2))]

\* a number below 2^31 as a 64-bit word
Word(n) == << n % Limb, n \div Limb, 0, 0 >>

\* u64::from_le_bytes and to_le_bytes
WordOfBytes(b) ==
    [i \in 1..4 |-> b[2 * i - 1] + 256 * b[2 * i]]
BytesOfWord(w) ==
    [k \in 1..8 |-> IF k % 2 = 1 THEN w[(k + 1) \div 2] % 256
                    ELSE w[k \div 2] \div 256]

\* the initialisation vector of BLAKE2b
IV ==
    << << 51464, 62396, 58983, 27145 >>, << 42811, 33994, 44677, 47975 >>,
       << 63531, 65172, 62322, 15470 >>, << 14065, 24349, 62778, 42319 >>,
       << 33489, 44518, 21119, 20750 >>, << 27679, 11070, 26764, 39685 >>,
       << 48491, 64321, 55723, 8067 >>,  << 8569, 4990, 52505, 23520 >> >>

\* the message schedule of BLAKE2b
Sigma ==
    << << 0, 1, 2, 3, 4, 5, 6, 7, 8, 9, 10, 11, 12, 13, 14, 15 >>,
       << 14, 10, 4, 8, 9, 15, 13, 6, 1, 12, 0, 2, 11, 7, 5, 3 >>,
       << 11, 8, 12, 0, 5, 2, 15, 13, 10, 14, 3, 6, 7, 1, 9, 4 >>,
       << 7, 9, 3, 1, 13, 12, 11, 14, 2, 6, 5, 10, 4, 0, 15, 8 >>,
       << 9, 0, 5, 7, 2, 4, 10, 15, 14, 1, 11, 12, 6, 8, 3, 13 >>,
       << 2, 12, 6, 10, 0, 11, 8, 3, 4, 13, 7, 5, 15, 14, 1, 9 >>,
       << 12, 5, 1, 15, 14, 13, 4, 10, 0, 7, 6, 3, 9, 2, 8, 11 >>,
       << 13, 11, 7, 14, 12, 1, 3, 9, 5, 0, 15, 4, 8, 6, 2, 10 >>,
       << 6, 15, 14, 9, 11, 3, 0, 8, 12, 2, 13, 7, 1, 4, 10, 5 >>,
       << 10, 2, 8, 4, 7, 6, 1, 5, 15, 11, 9, 14, 3, 12, 13, 0 >> >>
BlakeRounds == 12
BlockBytes == 128

\* the mixing function G on the words a, b, c, d of v with message words x, y
\* the steps of G on the four words q = << a, b, c, d >>
MixA(q, x) == [q EXCEPT ![1] = Add64(Add64(q[1], q[2]), x)]
MixD32(q)  == [q EXCEPT ![4] = Rotr32(Xor64(q[4], q[1]))]
MixD16(q)  == [q EXCEPT ![4] = Rotr16(Xor64(q[4], q[1]))]
MixC(q)    == [q EXCEPT ![3] = Add64(q[3], q[4])]
MixB24(q)  == [q EXCEPT ![2] = Rotr24(Xor64(q[2], q[3]))]
MixB63(q)  == [q EXCEPT ![2] = Rotr63(Xor64(q[2], q[3]))]
Mix(q, x, y) ==
    MixB63(MixC(MixD16(MixA(MixB24(MixC(MixD32(MixA(q, x)))), y))))
Put(v, a, b, c, d, q) ==
    [v EXCEPT ![a] = q[1], ![b] = q[2], ![c] = q[3], ![d] = q[4]]

G(v, a, b, c, d, x, y) ==
    Put(v, a, b, c, d, Mix(<< v[a], v[b], v[c], v[d] >>, x, y))

\* one round: the four columns, then the four diagonals
Round(v, m, s) ==
    LET v1 == G(v,  1, 5, 9,  13, m[s[1] + 1],  m[s[2] + 1])
        v2 == G(v1, 2, 6, 10, 14, m[s[3] + 1],  m[s[4] + 1])
        v3 == G(v2, 3, 7, 11, 15, m[s[5] + 1],  m[s[6] + 1])
        v4 == G(v3, 4, 8, 12, 16, m[s[7] + 1],  m[s[8] + 1])
        v5 == G(v4, 1, 6, 11, 16, m[s[9] + 1],  m[s[10] + 1])
        v6 == G(v5, 2, 7, 12, 13, m[s[11] + 1], m[s[12] + 1])
        v7 == G(v6, 3, 8, 9,  14, m[s[13] + 1], m[s[14] + 1])
    IN  G(v7, 4, 5, 10, 15, m[s[15] + 1], m[s[16] + 1])

RECURSIVE Rounds(_, _, _)
Rounds(v, m, r) ==
    IF r = BlakeRounds \/ Len(v) # 2 * Len(IV) THEN v
    ELSE Rounds(Round(v, m, Sigma[(r % 10) + 1]), m, r + 1)

\* the compression function: chaining value h, a block of 128 bytes, the
\* count t of bytes hashed so far and whether the block is the last
MessageWords(block) ==
    [i \in 1..16 |-> WordOfBytes(SubSeq(block, 8 * i - 7, 8 * i))]
WorkVector(h, t, last) ==
    [h \o IV EXCEPT ![13] = Xor64(@, Word(t)),
                    ![15] = IF last THEN Xor64(@, << Limb - 1, Limb - 1,
                                                     Limb - 1, Limb - 1 >>)
                            ELSE @]
FeedForward(h, v) == [i \in 1..8 |-> Xor64(Xor64(h[i], v[i]), v[i + 8])]
Compress(h, block, t, last) ==
    FeedForward(h, Rounds(WorkVector(h, t, last), MessageWords(block), 0))

Zeros(n) == [i \in 1..n |-> 0]

\* Params::new().hash_length(len).key(key).to_state(): the parameter block
\* is folded into the first word, and the key, padded to a block, is the
\* first input
BlakeNew(len, key) ==
    [ h   |-> [IV EXCEPT ![1] = Xor64(@, << Len(key) * 256 + len, 257, 0, 0 >>)],
      buf |-> key \o Zeros(BlockBytes - Len(key)),
      t   |-> 0,
      len |-> len ]

\* State::update: a full buffer is compressed once more input arrives
RECURSIVE BlakeUpdate(_, _)
BlakeUpdate(st, bytes) ==
    IF Len(st.buf) + Len(bytes) <= BlockBytes
    THEN [st EXCEPT !.buf = @ \o bytes]
    ELSE LET take == BlockBytes - Len(st.buf)
             t    == st.t + BlockBytes
         IN  BlakeUpdate([st EXCEPT !.h = Compress(st.h, st.buf \o SubSeq(bytes, 1, take),
                                                   t, FALSE),
                                    !.buf = << >>,
                                    !.t = t],
                         SubSeq(bytes, take + 1, Len(bytes)))

\* State::finalize: the last block is padded with zeros, and the digest is
\* the first len bytes of the chaining value
BytesOfWords(h) ==
    BytesOfWord(h[1]) \o BytesOfWord(h[2]) \o BytesOfWord(h[3])
    \o BytesOfWord(h[4]) \o BytesOfWord(h[5]) \o BytesOfWord(h[6])
    \o BytesOfWord(h[7]) \o BytesOfWord(h[8])
BlakeFinalize(st) ==
    SubSeq(BytesOfWords(Compress(st.h, st.buf \o Zeros(BlockBytes - Len(st.buf)),
                                 st.t + Len(st.buf), TRUE)),
           1, st.len)

(***************************************************************************)
(* The header of the test of kaspad.rs 296-413, with its hex strings       *)
(* spelt digit by digit and its 64-bit numbers limb by limb.               *)
(***************************************************************************)
TestParents ==
    << << << 6, 2, 10, 5, 14, 14, 14, 8, 2, 10, 11, 13, 15, 4, 4, 10, 2, 13, 0, 11, 7, 5, 15, 11, 1, 8, 0, 13, 10, 15, 4, 8,
             10, 7, 9, 14, 14, 0, 11, 1, 0, 13, 3, 9, 4, 6, 5, 1, 8, 5, 0, 15, 13, 4, 10, 1, 7, 8, 8, 9, 2, 14, 14, 2 >>,
          << 8, 5, 14, 12, 14, 1, 5, 1, 1, 4, 5, 5, 7, 8, 0, 8, 7, 5, 13, 6, 4, 14, 14, 2, 13, 3, 13, 0, 13, 0, 13, 14,
             6, 11, 15, 8, 15, 9, 11, 4, 4, 12, 14, 8, 5, 15, 15, 0, 4, 4, 12, 6, 11, 1, 15, 8, 3, 11, 8, 14, 8, 8, 3, 11 >>,
          << 11, 15, 8, 5, 7, 10, 10, 11, 9, 9, 12, 5, 11, 2, 5, 2, 12, 7, 4, 2, 9, 12, 3, 2, 15, 3, 10, 8, 10, 14, 11, 7,
             9, 14, 15, 8, 5, 6, 15, 6, 5, 9, 12, 1, 8, 15, 0, 13, 12, 14, 12, 12, 7, 7, 12, 7, 5, 14, 7, 10, 8, 1, 11, 15 >>,
          << 13, 14, 2, 7, 5, 15, 6, 7, 12, 15, 14, 2, 4, 2, 12, 15, 3, 12, 12, 3, 5, 4, 15, 3, 14, 13, 14, 2, 13, 6, 11, 14,
             12, 12, 4, 14, 10, 3, 10, 14, 5, 14, 8, 8, 5, 2, 6, 10, 9, 15, 4, 10, 5, 7, 8, 11, 12, 11, 9, 14, 15, 2, 13, 4 >>,
          << 10, 6, 5, 3, 1, 4, 7, 6, 8, 13, 6, 13, 2, 9, 9, 7, 6, 1, 14, 10, 9, 14, 4, 15, 5, 10, 10, 6, 10, 14, 12, 3,
             15, 12, 7, 8, 12, 6, 10, 10, 14, 0, 8, 1, 10, 12, 8, 1, 2, 0, 12, 7, 2, 0, 14, 15, 12, 13, 6, 12, 14, 10, 8, 4 >>,
          << 11, 6, 9, 2, 5, 14, 6, 0, 7, 11, 14, 0, 6, 3, 7, 1, 6, 15, 9, 6, 13, 13, 12, 13, 13, 0, 1, 13, 7, 5, 0, 4,
             5, 12, 3, 15, 0, 0, 0, 15, 8, 10, 7, 9, 6, 11, 12, 14, 6, 12, 5, 1, 2, 12, 3, 8, 0, 1, 10, 10, 12, 10, 14, 14 >> >>,
       << << 13, 15, 10, 13, 5, 11, 5, 0, 14, 12, 14, 0, 11, 8, 11, 7, 12, 1, 9, 6, 5, 13, 9, 1, 8, 1, 2, 5, 1, 11, 7, 12,
             9, 12, 9, 12, 10, 5, 2, 0, 5, 10, 15, 12, 1, 6, 10, 2, 3, 6, 10, 2, 14, 15, 12, 13, 13, 2, 13, 1, 2, 13, 2, 10 >>,
          << 7, 9, 13, 0, 7, 4, 10, 8, 2, 8, 0, 10, 14, 9, 4, 3, 9, 14, 11, 0, 13, 6, 10, 14, 12, 10, 0, 8, 2, 3, 10, 14,
             0, 2, 13, 6, 7, 13, 8, 6, 6, 10, 12, 2, 12, 4, 15, 14, 4, 10, 7, 2, 5, 0, 5, 3, 13, 10, 1, 1, 9, 11, 9, 13 >>,
          << 4, 15, 5, 1, 5, 1, 4, 0, 10, 2, 13, 7, 2, 3, 9, 12, 4, 0, 11, 4, 5, 10, 12, 3, 9, 5, 0, 13, 9, 4, 1, 15,
             12, 4, 15, 14, 1, 12, 0, 12, 11, 9, 6, 10, 13, 3, 2, 2, 13, 6, 2, 2, 8, 2, 2, 9, 5, 15, 11, 15, 14, 1, 1, 14 >>,
          << 2, 6, 10, 4, 3, 3, 0, 7, 6, 13, 11, 5, 12, 1, 4, 4, 4, 12, 3, 10, 3, 4, 13, 3, 2, 10, 5, 12, 4, 10, 7, 15,
             15, 11, 14, 8, 13, 1, 8, 1, 15, 7, 14, 13, 3, 11, 8, 12, 15, 14, 9, 0, 4, 15, 9, 3, 15, 8, 15, 0, 6, 13, 2, 9 >>,
          << 11, 12, 13, 9, 14, 13, 8, 4, 7, 11, 1, 8, 2, 14, 0, 4, 6, 4, 1, 0, 15, 4, 4, 11, 12, 4, 11, 0, 15, 3, 15, 0,
             3, 10, 0, 13, 0, 6, 8, 2, 0, 10, 3, 0, 15, 2, 5, 7, 15, 8, 1, 1, 4, 1, 3, 0, 6, 7, 8, 10, 12, 0, 4, 5 >>,
          << 8, 6, 12, 1, 14, 3, 12, 9, 3, 4, 2, 12, 8, 11, 8, 0, 5, 5, 12, 4, 6, 6, 13, 8, 8, 6, 4, 4, 1, 13, 2, 5,
             9, 9, 0, 6, 13, 6, 9, 10, 12, 13, 8, 9, 4, 11, 9, 6, 8, 10, 14, 9, 15, 0, 14, 11, 9, 13, 9, 6, 5, 12, 14, 6 >>,
          << 10, 4, 6, 9, 3, 12, 4, 14, 11, 14, 8, 8, 1, 5, 0, 1, 11, 7, 13, 9, 8, 4, 6, 11, 6, 6, 14, 11, 0, 2, 11, 5,
             7, 14, 5, 12, 13, 10, 7, 11, 6, 12, 11, 10, 6, 8, 9, 1, 13, 6, 1, 6, 11, 13, 6, 8, 6, 12, 3, 7, 11, 8, 3, 4 >> >>,
       << << 6, 1, 3, 10, 12, 8, 11, 10, 5, 2, 7, 3, 4, 10, 14, 4, 14, 3, 15, 1, 2, 1, 7, 10, 12, 13, 5, 15, 8, 3, 2, 7,
             0, 8, 1, 4, 3, 0, 1, 8, 6, 7, 11, 5, 13, 0, 6, 7, 1, 1, 11, 2, 3, 8, 0, 0, 1, 12, 7, 9, 5, 7, 11, 2 >>,
          << 7, 7, 1, 9, 12, 14, 3, 15, 3, 1, 8, 8, 13, 15, 14, 5, 7, 13, 14, 14, 11, 15, 6, 15, 8, 2, 5, 9, 5, 10, 1, 0,
             15, 7, 11, 11, 5, 6, 2, 12, 10, 0, 4, 13, 5, 12, 3, 13, 2, 7, 9, 4, 2, 9, 5, 8, 12, 6, 13, 11, 3, 2, 6, 2 >>,
          << 6, 7, 0, 6, 4, 9, 15, 3, 11, 12, 9, 7, 13, 9, 10, 2, 3, 1, 6, 7, 3, 5, 14, 13, 14, 6, 8, 2, 10, 5, 13, 15,
             14, 6, 15, 1, 10, 0, 1, 1, 15, 11, 12, 9, 8, 10, 13, 0, 15, 11, 14, 7, 9, 0, 0, 0, 3, 12, 0, 1, 14, 8, 14, 9 >>,
          << 9, 6, 7, 7, 0, 3, 10, 15, 6, 6, 5, 14, 9, 15, 7, 2, 4, 0, 7, 15, 4, 11, 0, 3, 13, 4, 15, 13, 11, 4, 7, 4,
             10, 10, 15, 14, 8, 10, 0, 13, 3, 14, 0, 5, 1, 5, 13, 13, 4, 6, 5, 0, 12, 15, 5, 1, 1, 7, 2, 11, 8, 1, 2, 4 >>,
          << 8, 11, 12, 11, 7, 15, 9, 6, 9, 14, 4, 0, 0, 11, 6, 12, 5, 11, 1, 2, 7, 7, 6, 8, 11, 1, 12, 4, 1, 2, 15, 10,
             14, 9, 8, 12, 15, 5, 7, 6, 3, 1, 12, 15, 3, 7, 0, 3, 3, 11, 4, 11, 4, 10, 11, 10, 7, 13, 7, 14, 13, 3, 1, 9 >>,
          << 11, 10, 1, 4, 7, 2, 4, 9, 12, 9, 0, 8, 10, 12, 7, 0, 13, 1, 12, 4, 0, 6, 13, 10, 13, 14, 0, 14, 8, 2, 8, 14,
             11, 6, 11, 10, 0, 13, 12, 10, 10, 8, 8, 2, 8, 5, 5, 4, 3, 14, 1, 0, 2, 1, 3, 12, 6, 4, 3, 15, 12, 8, 6, 0 >>,
          << 3, 11, 5, 8, 6, 0, 2, 3, 6, 6, 7, 0, 11, 10, 11, 12, 10, 13, 0, 11, 13, 7, 15, 4, 12, 4, 1, 9, 0, 14, 3, 2,
             3, 6, 2, 3, 10, 8, 6, 8, 13, 1, 14, 10, 14, 1, 7, 6, 9, 15, 4, 0, 10, 2, 6, 6, 3, 1, 4, 3, 1, 11, 3, 11 >>,
          << 13, 5, 2, 1, 5, 6, 0, 5, 13, 2, 0, 8, 6, 15, 14, 10, 13, 4, 9, 9, 10, 12, 6, 3, 10, 4, 6, 5, 3, 13, 1, 2,
             2, 8, 3, 13, 5, 6, 0, 1, 9, 12, 3, 7, 9, 5, 10, 9, 8, 10, 1, 2, 6, 13, 0, 9, 12, 15, 12, 11, 14, 3, 6, 12 >>,
          << 13, 12, 12, 9, 3, 7, 8, 8, 10, 5, 4, 0, 9, 15, 8, 11, 6, 14, 4, 2, 12, 2, 13, 13, 8, 3, 10, 10, 4, 6, 6, 1,
             1, 8, 5, 2, 10, 13, 0, 11, 5, 0, 2, 8, 7, 7, 5, 12, 7, 7, 1, 6, 9, 0, 11, 6, 8, 5, 4, 14, 0, 5, 11, 3 >> >>,
       << << 7, 7, 2, 4, 1, 14, 3, 0, 2, 12, 6, 13, 10, 8, 6, 6, 5, 12, 4, 2, 3, 4, 1, 13, 13, 10, 4, 10, 13, 10, 14, 10,
             5, 9, 5, 10, 11, 1, 8, 9, 5, 15, 9, 6, 5, 2, 4, 8, 9, 13, 13, 2, 12, 14, 11, 4, 9, 12, 2, 4, 7, 4, 3, 0 >>,
          << 3, 12, 11, 11, 4, 4, 12, 2, 11, 9, 4, 3, 0, 3, 13, 11, 6, 6, 2, 12, 9, 12, 6, 6, 11, 8, 7, 8, 2, 9, 0, 5,
             1, 9, 0, 15, 1, 14, 1, 6, 3, 5, 11, 6, 3, 14, 3, 4, 8, 7, 8, 13, 3, 15, 2, 4, 6, 15, 10, 13, 15, 12, 14, 3 >>,
          << 4, 4, 14, 7, 4, 14, 15, 8, 1, 3, 0, 9, 0, 15, 8, 0, 3, 0, 11, 12, 13, 5, 2, 5, 10, 12, 1, 0, 6, 5, 3, 15,
             15, 1, 8, 2, 14, 0, 0, 1, 2, 0, 15, 7, 14, 1, 15, 7, 9, 6, 15, 10, 0, 15, 12, 1, 6, 11, 10, 7, 11, 11, 9, 0 >>,
          << 11, 14, 2, 10, 3, 3, 14, 8, 7, 12, 3, 13, 6, 0, 10, 11, 6, 2, 8, 4, 7, 1, 10, 4, 2, 0, 8, 3, 4, 3, 8, 3,
             6, 6, 1, 8, 0, 1, 11, 11, 0, 11, 15, 13, 8, 14, 6, 12, 1, 4, 0, 0, 7, 1, 13, 11, 1, 14, 11, 2, 15, 7, 10, 1 >>,
          << 8, 1, 9, 4, 15, 1, 10, 0, 4, 5, 10, 9, 4, 12, 0, 7, 8, 8, 3, 5, 12, 7, 5, 13, 15, 15, 2, 15, 3, 14, 8, 3,
             6, 1, 8, 0, 11, 10, 10, 13, 9, 14, 9, 5, 5, 13, 10, 8, 4, 0, 13, 12, 7, 4, 12, 4, 13, 12, 2, 4, 9, 8, 15, 8 >>,
          << 12, 2, 0, 1, 10, 14, 12, 2, 5, 4, 10, 0, 14, 3, 6, 4, 7, 6, 11, 2, 14, 14, 11, 1, 2, 4, 15, 13, 12, 6, 10, 15,
             12, 1, 11, 7, 13, 8, 0, 9, 12, 5, 14, 0, 8, 11, 5, 14, 0, 14, 8, 4, 5, 10, 10, 15, 9, 11, 6, 12, 3, 9, 5, 7 >>,
          << 14, 9, 5, 10, 11, 4, 10, 10, 8, 14, 1, 0, 7, 12, 13, 11, 8, 7, 3, 15, 2, 13, 10, 12, 5, 2, 7, 15, 1, 6, 12, 4,
             13, 5, 10, 12, 8, 7, 6, 0, 7, 6, 8, 10, 7, 1, 5, 14, 4, 6, 6, 9, 12, 11, 8, 4, 0, 12, 2, 5, 3, 1, 7, 15 >>,
          << 9, 10, 3, 6, 8, 7, 7, 4, 14, 5, 0, 6, 3, 4, 1, 10, 15, 11, 4, 6, 5, 0, 3, 14, 2, 8, 14, 9, 2, 14, 5, 1,
             11, 13, 7, 15, 7, 13, 4, 11, 5, 3, 11, 9, 0, 2, 3, 13, 5, 6, 15, 9, 11, 9, 14, 12, 9, 9, 1, 10, 12, 2, 10, 9 >>,
          << 13, 9, 11, 12, 4, 5, 15, 15, 6, 4, 11, 11, 2, 11, 15, 1, 4, 13, 4, 0, 5, 1, 10, 7, 6, 0, 4, 11, 2, 8, 11, 10,
             13, 4, 4, 13, 9, 8, 11, 15, 14, 3, 0, 14, 5, 4, 14, 11, 12, 0, 7, 15, 10, 4, 5, 15, 6, 2, 10, 10, 11, 14, 3, 9 >> >>,
       << << 5, 12, 12, 9, 8, 11, 2, 14, 3, 15, 6, 13, 14, 11, 2, 9, 9, 0, 1, 8, 7, 0, 5, 8, 14, 4, 11, 15, 13, 2, 13, 1,
             6, 4, 0, 6, 5, 3, 15, 12, 3, 8, 10, 3, 0, 11, 0, 15, 8, 3, 2, 3, 1, 10, 9, 6, 5, 11, 4, 1, 3, 11, 0, 15 >>,
          << 2, 6, 9, 2, 7, 14, 0, 13, 0, 3, 2, 14, 8, 3, 0, 11, 7, 3, 2, 11, 13, 14, 11, 3, 0, 9, 4, 12, 11, 1, 10, 5,
             15, 10, 6, 13, 14, 12, 9, 15, 0, 6, 3, 7, 5, 14, 10, 2, 5, 15, 14, 5, 7, 12, 2, 8, 5, 3, 14, 10, 0, 9, 3, 2 >>,
          << 0, 10, 12, 8, 8, 0, 3, 9, 7, 6, 14, 10, 12, 10, 10, 0, 9, 5, 12, 0, 2, 15, 8, 6, 9, 15, 13, 7, 13, 12, 3, 1,
             0, 7, 2, 4, 7, 5, 9, 4, 0, 12, 3, 7, 5, 1, 13, 5, 6, 2, 8, 3, 12, 4, 9, 14, 2, 15, 14, 15, 13, 4, 1, 13 >>,
          << 15, 6, 7, 6, 11, 13, 12, 11, 5, 8, 5, 5, 10, 0, 4, 7, 0, 14, 15, 13, 2, 13, 10, 11, 7, 10, 7, 2, 12, 12, 5, 14,
             5, 15, 3, 9, 15, 15, 7, 14, 14, 10, 0, 15, 4, 3, 3, 10, 9, 15, 14, 7, 11, 6, 10, 6, 7, 5, 11, 12, 2, 10, 12, 5 >>,
          << 0, 12, 13, 2, 1, 8, 12, 0, 0, 9, 14, 2, 1, 15, 9, 1, 0, 15, 9, 13, 13, 11, 0, 9, 10, 0, 13, 0, 5, 9, 12, 4,
             12, 13, 7, 13, 2, 12, 10, 6, 5, 10, 2, 3, 4, 9, 13, 15, 7, 10, 8, 6, 7, 13, 11, 14, 13, 13, 8, 1, 14, 9, 13, 4 >>,
          << 8, 9, 1, 6, 1, 9, 12, 8, 3, 12, 4, 2, 8, 9, 5, 12, 14, 1, 11, 6, 7, 1, 12, 11, 7, 10, 4, 11, 12, 10, 14, 13,
             9, 1, 3, 0, 10, 11, 1, 13, 13, 4, 12, 12, 2, 13, 8, 1, 4, 7, 10, 1, 5, 9, 5, 0, 5, 6, 11, 5, 5, 15, 9, 2 >>,
          << 10, 3, 5, 5, 13, 11, 7, 6, 5, 10, 13, 12, 8, 13, 3, 13, 15, 8, 8, 14, 11, 9, 3, 13, 5, 2, 7, 15, 7, 15, 7, 14,
             12, 8, 6, 9, 10, 7, 5, 7, 0, 3, 11, 10, 8, 6, 13, 4, 11, 3, 6, 1, 1, 0, 14, 9, 10, 0, 4, 4, 5, 9, 3, 12 >>,
          << 9, 6, 6, 8, 1, 5, 13, 1, 5, 3, 6, 6, 5, 3, 8, 7, 13, 12, 3, 8, 14, 5, 0, 7, 14, 7, 4, 5, 8, 13, 15, 3,
             14, 6, 11, 0, 15, 0, 4, 0, 3, 5, 14, 15, 9, 4, 1, 9, 8, 8, 3, 14, 0, 3, 12, 0, 8, 14, 2, 13, 7, 5, 3, 11 >>,
          << 0, 8, 12, 9, 0, 9, 0, 10, 10, 11, 15, 1, 7, 5, 15, 13, 11, 6, 3, 14, 8, 12, 15, 9, 10, 5, 15, 0, 7, 8, 3, 7,
             0, 4, 12, 7, 4, 1, 12, 1, 9, 5, 1, 5, 7, 6, 2, 6, 4, 0, 1, 13, 9, 4, 9, 14, 10, 10, 6, 13, 11, 13, 0, 4 >> >>,
       << << 13, 7, 11, 15, 5, 14, 9, 12, 1, 8, 12, 12, 7, 9, 13, 13, 10, 4, 14, 1, 2, 14, 15, 14, 5, 6, 4, 14, 12, 11, 8, 10,
             4, 0, 1, 9, 14, 1, 12, 4, 1, 15, 2, 13, 8, 2, 1, 7, 12, 0, 12, 3, 10, 4, 3, 7, 1, 2, 10, 14, 2, 2, 6, 15 >>,
          << 12, 14, 7, 7, 6, 6, 3, 1, 10, 14, 1, 9, 11, 3, 2, 6, 10, 4, 1, 1, 10, 2, 8, 4, 7, 4, 1, 11, 14, 0, 1, 15,
             11, 4, 15, 3, 10, 14, 15, 12, 5, 13, 14, 15, 9, 6, 8, 14, 11, 6, 12, 12, 14, 11, 8, 6, 0, 4, 8, 6, 4, 11, 4, 11 >>,
          << 9, 10, 13, 3, 7, 3, 12, 11, 10, 12, 1, 0, 14, 10, 7, 14, 6, 6, 5, 11, 2, 9, 4, 10, 8, 10, 7, 9, 0, 6, 9, 1,
             10, 10, 5, 2, 4, 6, 14, 6, 15, 15, 8, 15, 13, 0, 11, 7, 15, 11, 9, 11, 9, 10, 6, 10, 9, 5, 8, 14, 11, 15, 2, 8 >> >>,
       << << 14, 12, 5, 14, 8, 15, 12, 0, 11, 12, 0, 12, 6, 3, 7, 0, 0, 4, 12, 14, 14, 2, 6, 2, 12, 14, 15, 1, 2, 14, 7, 12,
             15, 6, 13, 9, 12, 13, 7, 7, 7, 2, 5, 1, 3, 13, 11, 13, 4, 6, 6, 1, 7, 6, 10, 0, 7, 10, 11, 7, 12, 4, 15, 4 >>,
          << 6, 5, 15, 14, 0, 9, 7, 4, 7, 7, 7, 9, 12, 3, 1, 4, 9, 5, 14, 6, 8, 9, 11, 6, 5, 15, 5, 5, 7, 11, 0, 10,
             4, 10, 15, 6, 5, 3, 5, 8, 8, 0, 11, 8, 2, 5, 5, 3, 13, 1, 2, 6, 15, 15, 7, 2, 1, 3, 5, 4, 2, 9, 0, 5 >>,
          << 5, 10, 6, 4, 7, 4, 9, 5, 9, 9, 3, 3, 3, 14, 9, 6, 5, 5, 11, 4, 3, 10, 10, 3, 6, 7, 2, 8, 11, 11, 6, 3,
             11, 13, 2, 8, 6, 4, 2, 7, 4, 4, 1, 11, 10, 10, 9, 15, 3, 0, 5, 13, 5, 12, 2, 5, 14, 0, 5, 2, 2, 9, 11, 11 >>,
          << 3, 3, 2, 15, 7, 14, 8, 3, 7, 5, 11, 7, 12, 4, 5, 14, 1, 14, 10, 0, 4, 6, 1, 13, 3, 3, 3, 12, 3, 12, 7, 2,
             5, 15, 7, 4, 6, 7, 11, 4, 4, 1, 11, 7, 13, 0, 15, 5, 14, 8, 0, 2, 4, 2, 11, 7, 10, 4, 10, 1, 8, 14, 13, 10 >> >>,
       << << 14, 8, 0, 13, 7, 13, 9, 10, 0, 10, 4, 6, 3, 4, 15, 0, 7, 11, 14, 10, 5, 12, 5, 10, 0, 0, 2, 1, 2, 15, 11, 12,
             5, 9, 1, 11, 13, 13, 15, 14, 11, 11, 9, 4, 3, 3, 4, 15, 4, 10, 2, 13, 9, 2, 8, 6, 7, 3, 13, 2, 6, 2, 10, 13 >> >>,
       << << 10, 11, 10, 10, 8, 2, 9, 8, 8, 12, 6, 8, 3, 15, 4, 7, 4, 2, 12, 1, 2, 0, 9, 9, 11, 7, 3, 2, 11, 13, 0, 3,
             6, 3, 9, 12, 1, 9, 7, 9, 7, 5, 2, 13, 8, 3, 7, 5, 1, 8, 2, 4, 3, 11, 7, 4, 13, 6, 7, 3, 0, 1, 2, 4 >>,
          << 5, 14, 15, 14, 5, 6, 6, 1, 14, 10, 10, 0, 4, 2, 8, 9, 1, 7, 15, 5, 5, 10, 5, 8, 12, 12, 3, 3, 13, 11, 2, 8,
             4, 13, 1, 15, 2, 12, 10, 10, 0, 5, 15, 1, 15, 13, 7, 11, 6, 6, 0, 2, 9, 8, 0, 15, 0, 6, 13, 1, 0, 7, 2, 3 >>,
          << 0, 11, 15, 3, 1, 0, 11, 4, 8, 12, 15, 6, 2, 9, 4, 2, 0, 1, 7, 13, 13, 6, 6, 8, 0, 14, 11, 3, 10, 11, 1, 3,
             3, 1, 0, 14, 12, 10, 1, 5, 8, 1, 10, 15, 11, 3, 12, 5, 11, 6, 1, 9, 14, 5, 12, 14, 0, 6, 8, 2, 13, 0, 13, 15 >>,
          << 12, 1, 15, 10, 13, 14, 3, 9, 2, 8, 1, 7, 9, 10, 9, 13, 12, 2, 8, 12, 13, 1, 7, 0, 11, 5, 11, 5, 5, 4, 4, 14,
             7, 15, 9, 11, 6, 3, 11, 8, 3, 13, 10, 3, 7, 4, 10, 15, 10, 2, 8, 14, 1, 4, 7, 8, 13, 12, 5, 12, 2, 9, 9, 7 >> >> >>

TestHeader ==
    [ version                 |-> 24565,
      parents                 |-> TestParents,
      hash_merkle_root        |->
          << 10, 9, 8, 3, 4, 7, 14, 12, 1, 14, 7, 1, 5, 1, 4, 14, 11, 2, 6, 8, 2, 2, 1, 6, 2, 13, 12, 7, 12, 3, 9, 9,
             2, 15, 13, 4, 1, 15, 0, 11, 2, 12, 12, 12, 2, 6, 14, 5, 5, 14, 7, 11, 13, 8, 15, 3, 15, 10, 3, 7, 2, 1, 5, 15 >>,
      accepted_id_merkle_root |->
          << 7, 7, 4, 11, 5, 2, 1, 6, 11, 5, 11, 8, 7, 2, 11, 6, 12, 2, 3, 8, 8, 13, 13, 9, 5, 0, 1, 6, 0, 14, 3, 15,
             15, 10, 3, 11, 15, 0, 6, 2, 3, 12, 4, 3, 8, 6, 5, 5, 11, 11, 5, 12, 8, 12, 7, 6, 8, 10, 11, 3, 3, 10, 14, 2 >>,
      utxo_commitment         |->
          << 14, 14, 3, 9, 2, 1, 8, 6, 7, 4, 0, 0, 8, 6, 6, 5, 14, 2, 0, 10, 3, 10, 12, 13, 15, 8, 4, 10, 11, 14, 15, 3,
             5, 12, 10, 11, 12, 12, 4, 8, 9, 1, 5, 8, 12, 0, 8, 5, 3, 15, 13, 5, 11, 15, 10, 9, 5, 4, 2, 2, 6, 1, 3, 9 >>,
      \* -1426594953012613626 as an i64
      timestamp               |-> << 28166, 56145, 46962, 60467 >>,
      bits                    |-> 684408190,
      \* 8230160685758639177
      nonce                   |-> << 27721, 55047, 26505, 29239 >>,
      \* 15448880227546599629
      daa_score               |-> << 37069, 7288, 29367, 54885 >>,
      blue_work               |->
          << 12, 14, 5, 6, 3, 9, 11, 8, 14, 13, 4, 6, 5, 7, 1, 14, 2, 0, 14, 14, 10, 10, 7, 10, 6, 2, 10, 0, 7, 8, 15, 8,
             12, 5, 5, 10, 14, 15, 6, 14, 13, 13, 6, 10, 3, 5, 14, 13, 3, 7, 10, 3, 13, 6, 12, 15, 9, 8, 7, 3, 6, 10, 11, 13 >>,
      pruning_point           |->
          << 15, 12, 4, 4, 12, 4, 15, 5, 7, 12, 15, 8, 15, 7, 10, 2, 11, 10, 4, 1, 0, 10, 7, 0, 13, 0, 10, 13, 4, 9, 0, 6,
             0, 3, 5, 5, 11, 9, 13, 14, 11, 9, 7, 0, 1, 2, 3, 4, 5, 6, 0, 3, 13, 9, 13, 0, 13, 1, 13, 12, 11, 0, 13, 14 >>,
      \* 29372123613087746
      blue_score              |-> << 51202, 29249, 22986, 104 >> ]

\* expected_hash of the test (kaspad.rs 407-410)
ExpectedHash ==
    << 85, 146, 211, 217, 138, 239, 47, 85, 152, 59, 58, 16, 4, 149, 129, 179,
       172, 226, 174, 233, 160, 96, 202, 54, 6, 225, 64, 142, 106, 0, 110, 137 >>

(***************************************************************************)
(* RpcBlockHeader::hash (kaspad.rs 233-287).                               *)
(***************************************************************************)
\* b"BlockHash"
BlockHashKey == << 66, 108, 111, 99, 107, 72, 97, 115, 104 >>
HashLength == 32

\* hex::decode_to_slice(s, out) for an out of n bytes: an error unless s is
\* 2n hex digits
HexDecode(s, n) ==
    IF Len(s) # 2 * n \/ \E i \in 1..Len(s) : s[i] = NotHex
    THEN None
    ELSE Some([i \in 1..n |-> 16 * s[2 * i - 1] + s[2 * i]])

\* what one statement of hash hands to the state: the bytes of an update,
\* the error a `?` returns, or the panic of a slice longer than its buffer
Bytes(b) == [kind |-> "bytes", bytes |-> b]
Decoded(s, n) ==
    IF IsSome(HexDecode(s, n)) THEN Bytes(Unwrap(HexDecode(s, n)))
    ELSE [kind |-> "error", bytes |-> << >>]

\* u16, u32 and u64 to_le_bytes
U16Bytes(n) == << n % 256, (n \div 256) % 256 >>
U32Bytes(n) == << n % 256, (n \div 256) % 256, (n \div 65536) % 256, n \div 16777216 >>
U64Bytes(w) == BytesOfWord(w)

\* the updates of one level of parents: the number of hashes, then each
RECURSIVE HashesUpdates(_)
HashesUpdates(hs) ==
    IF hs = << >> THEN << >>
    ELSE << Decoded(Head(hs), HashLength) >> \o HashesUpdates(Tail(hs))

RECURSIVE ParentsUpdates(_)
ParentsUpdates(ps) ==
    IF ps = << >> THEN << >>
    ELSE << Bytes(U64Bytes(Word(Len(Head(ps))))) >> \o HashesUpdates(Head(ps))
         \o ParentsUpdates(Tail(ps))

\* a header hashed with its own timestamp and nonce in either mode
StampKept(header, pre_pow) == << header.timestamp, header.nonce >>

\* lines 260-264: the timestamp and the nonce that are hashed
Stamp(header, pre_pow) ==
    IF pre_pow THEN << Word(0), Word(0) >>
    ELSE << header.timestamp, header.nonce >>

\* lines 273-281: blue_work, padded to an even number of digits, decoded
\* into the first len bytes of the buffer of 32
BlueWorkUpdates(blue_work) ==
    LET len == (Len(blue_work) + 1) \div 2
    IN  IF len > HashLength
        THEN << [kind |-> "panic", bytes |-> << >>] >>
        ELSE << IF Len(blue_work) % 2 = 0 THEN Decoded(blue_work, len)
                ELSE Decoded(<< 0 >> \o blue_work, len) >>

\* the statements of hash in its order, each as what it hands to the state;
\* the length of blue_work is hashed after blue_work is decoded
HashUpdates(header, pre_pow) ==
    LET bw == BlueWorkUpdates(header.blue_work)
    IN  << Bytes(U16Bytes(header.version % 65536)),
           Bytes(U64Bytes(Word(Len(header.parents)))) >>
        \o ParentsUpdates(header.parents)
        \o << Decoded(header.hash_merkle_root, HashLength),
              Decoded(header.accepted_id_merkle_root, HashLength),
              Decoded(header.utxo_commitment, HashLength),
              Bytes(U64Bytes(Stamp(header, pre_pow)[1])),
              Bytes(U32Bytes(header.bits)),
              Bytes(U64Bytes(Stamp(header, pre_pow)[2])),
              Bytes(U64Bytes(header.daa_score)),
              Bytes(U64Bytes(header.blue_score)) >>
        \o (IF bw[1].kind = "bytes"
            THEN << Bytes(U64Bytes(Word(Len(bw[1].bytes)))), bw[1] >>
            ELSE bw)
        \o << Decoded(header.pruning_point, HashLength) >>

\* the headers hashed: the one of the test, the same header with another
\* timestamp and nonce, a short one whose blue_work has an odd number of
\* digits, the same with another nonce alone, one whose merkle root is no
\* hex string and one whose blue_work is longer than the buffer
TestHeaderRestamped ==
    [TestHeader EXCEPT !.timestamp = Word(1), !.nonce = Word(2)]
ShortHeader ==
    [TestHeader EXCEPT !.parents = << << TestHeader.pruning_point >>, << >> >>,
                       !.blue_work = << 1, 2, 3 >>]
ShortHeaderRenonced == [ShortHeader EXCEPT !.nonce = Word(3)]
BadHexHeader ==
    [ShortHeader EXCEPT !.hash_merkle_root = [TestHeader.hash_merkle_root
                                                  EXCEPT ![HashLength] = NotHex]]
LongWorkHeader ==
    [ShortHeader EXCEPT !.blue_work = TestHeader.blue_work \o << 1, 2 >>]
Headers ==
    {TestHeader, TestHeaderRestamped, ShortHeader, ShortHeaderRenonced,
     BadHexHeader, LongWorkHeader}

(***************************************************************************)
(* U256 of uint.rs: four u64 words, the least significant first, each held *)
(* as four limbs of 16 bits.                                               *)
(***************************************************************************)
WordBits == 64
NWords == 4

\* 2^n for the shifts of a limb
Pow2(n) == 2 ^ n

\* u64: 0, 1, the comparison, `!` and the number of leading zeros
Zero64 == << 0, 0, 0, 0 >>
One64 == << 1, 0, 0, 0 >>
Lt64(a, b) ==
    \E i \in 1..4 : a[i] < b[i] /\ \A j \in (i + 1)..4 : a[j] = b[j]
Not64(a) == << Limb - 1 - a[1], Limb - 1 - a[2], Limb - 1 - a[3], Limb - 1 - a[4] >>
RECURSIVE LimbLen(_)
LimbLen(n) == IF n = 0 THEN 0 ELSE 1 + LimbLen(n \div 2)
Len64(a) ==
    IF a[4] # 0 THEN 3 * LimbBits + LimbLen(a[4])
    ELSE IF a[3] # 0 THEN 2 * LimbBits + LimbLen(a[3])
    ELSE IF a[2] # 0 THEN LimbBits + LimbLen(a[2])
    ELSE LimbLen(a[1])
LeadingZeros64(a) == WordBits - Len64(a)

\* the limb at index i of a word, 0 outside it
LimbAt(a, i) == IF i \in 1..4 THEN a[i] ELSE 0

\* u64 `<<` and `>>` by s bits, 0 <= s < 64
ShlLimb(a, s, i) ==
    ((LimbAt(a, i - (s \div LimbBits)) * Pow2(s % LimbBits)) % Limb)
    + (LimbAt(a, i - (s \div LimbBits) - 1) \div Pow2(LimbBits - (s % LimbBits)))
Shl64(a, s) == << ShlLimb(a, s, 1), ShlLimb(a, s, 2), ShlLimb(a, s, 3), ShlLimb(a, s, 4) >>
ShrLimb(a, s, i) ==
    (LimbAt(a, i + (s \div LimbBits)) \div Pow2(s % LimbBits))
    + ((LimbAt(a, i + (s \div LimbBits) + 1) % Pow2(s % LimbBits))
         * Pow2(LimbBits - (s % LimbBits)))
Shr64(a, s) == << ShrLimb(a, s, 1), ShrLimb(a, s, 2), ShrLimb(a, s, 3), ShrLimb(a, s, 4) >>

\* u64 `|`
RECURSIVE OrBits(_, _, _)
OrBits(a, b, n) ==
    IF n = 0 THEN 0
    ELSE (IF a % 2 = 1 \/ b % 2 = 1 THEN 1 ELSE 0) + 2 * OrBits(a \div 2, b \div 2, n - 1)
Or64(a, b) ==
    << OrBits(a[1], b[1], LimbBits), OrBits(a[2], b[2], LimbBits),
       OrBits(a[3], b[3], LimbBits), OrBits(a[4], b[4], LimbBits) >>

\* the product of two limbs as the two limbs of a u32, and of two u32 as a
\* u64
LimbPair(p0, p1) ==
    << (p0 + (p1 % 256) * 256) % Limb,
       (p1 \div 256) + ((p0 + (p1 % 256) * 256) \div Limb) >>
LimbMul(a, b) == LimbPair(a * (b % 256), a * (b \div 256))
Placed(p, k) == SubSeq(<< 0, 0 >> \o p \o << 0, 0 >>, 3 - k, 6 - k)
Mul32(x, y) ==
    Add64(Add64(Placed(LimbMul(x[1], y[1]), 0), Placed(LimbMul(x[2], y[1]), 1)),
          Add64(Placed(LimbMul(x[1], y[2]), 1), Placed(LimbMul(x[2], y[2]), 2)))

\* the low and the high half of a u64 as u32
Low32(a) == << a[1], a[2] >>
High32(a) == << a[3], a[4] >>

\* U256::zero, one, from_u64, low_u32, low_u64 and `!`
U256Zero == << Zero64, Zero64, Zero64, Zero64 >>
U256One == [U256Zero EXCEPT ![1] = One64]
from_u64(w) == [U256Zero EXCEPT ![1] = w]
low_u32(u) == Low32(u[1])
low_u64(u) == u[1]
U256Not(u) == << Not64(u[1]), Not64(u[2]), Not64(u[3]), Not64(u[4]) >>

\* U256::bits: the least number of bits that hold the number
U256Bits(u) ==
    IF u[4] # Zero64 THEN WordBits * 4 - LeadingZeros64(u[4])
    ELSE IF u[3] # Zero64 THEN WordBits * 3 - LeadingZeros64(u[3])
    ELSE IF u[2] # Zero64 THEN WordBits * 2 - LeadingZeros64(u[2])
    ELSE WordBits - LeadingZeros64(u[1])

\* BitArray::bit
U256Bit(u, index) ==
    (u[(index \div WordBits) + 1][((index % WordBits) \div LimbBits) + 1]
        \div Pow2(index % LimbBits)) % 2 = 1

\* Ord::cmp, as `>=`
U256Ge(a, b) ==
    ~ \E i \in 1..NWords : Lt64(a[i], b[i]) /\ \A j \in (i + 1)..NWords : a[j] = b[j]

\* Add: the words are added, the carries are collected one word up and
\* added in turn
AddWords(a, b) ==
    << Add64(a[1], b[1]), Add64(a[2], b[2]), Add64(a[3], b[3]), Add64(a[4], b[4]) >>
CarryOf(ret, me) == IF Lt64(ret, me) THEN One64 ELSE Zero64
AddCarry(ret, me) ==
    << Zero64, CarryOf(ret[1], me[1]), CarryOf(ret[2], me[2]), CarryOf(ret[3], me[3]) >>
RECURSIVE U256Add(_, _)
AddCarried(ret, carry) == IF carry # U256Zero THEN U256Add(ret, carry) ELSE ret
AddSummed(ret, me) == AddCarried(ret, AddCarry(ret, me))
U256Add(a, b) == AddSummed(AddWords(a, b), a)

\* Sub: self + !other + one
U256Sub(a, b) == U256Add(U256Add(a, U256Not(b)), U256One)

\* the word at index i of a U256, 0 outside it
WordAt(u, i) == IF i \in 1..NWords THEN u[i] ELSE Zero64

\* Shl and Shr by any number of bits
ShlWord(u, shift, k) ==
    Add64(Shl64(WordAt(u, k - (shift \div WordBits)), shift % WordBits),
          IF shift % WordBits > 0
          THEN Shr64(WordAt(u, k - (shift \div WordBits) - 1),
                     WordBits - (shift % WordBits))
          ELSE Zero64)
\* Shl without the second `if` of its loop: the bits a word loses at its
\* top are not carried into the next word
U256ShlNoCarry(u, shift) ==
    << Shl64(WordAt(u, 1 - (shift \div WordBits)), shift % WordBits),
       Shl64(WordAt(u, 2 - (shift \div WordBits)), shift % WordBits),
       Shl64(WordAt(u, 3 - (shift \div WordBits)), shift % WordBits),
       Shl64(WordAt(u, 4 - (shift \div WordBits)), shift % WordBits) >>
U256Shl(u, shift) ==
    << ShlWord(u, shift, 1), ShlWord(u, shift, 2), ShlWord(u, shift, 3),
       ShlWord(u, shift, 4) >>
ShrWord(u, shift, k) ==
    Add64(Shr64(WordAt(u, k + (shift \div WordBits)), shift % WordBits),
          IF shift % WordBits > 0
          THEN Shl64(WordAt(u, k + (shift \div WordBits) + 1),
                     WordBits - (shift % WordBits))
          ELSE Zero64)
U256Shr(u, shift) ==
    << ShrWord(u, shift, 1), ShrWord(u, shift, 2), ShrWord(u, shift, 3),
       ShrWord(u, shift, 4) >>

\* increment: the words wrap one after the other until one is not zero
IncWord(u, i) ==
    IF \A j \in 1..(i - 1) : u[j] = Not64(Zero64) THEN Add64(u[i], One64) ELSE u[i]
increment(u) == << IncWord(u, 1), IncWord(u, 2), IncWord(u, 3), IncWord(u, 4) >>

\* mul_u32: per word the two products with the halves, the carries one
\* word up, none out of the last word
MulWordLow(w, other) == Mul32(other, Low32(w))
MulWordHigh(w, other) == Mul32(other, High32(w))
MulWordSum(w, other) ==
    Add64(MulWordLow(w, other), Shl64(MulWordHigh(w, other), 32))
MulWordCarry(w, other) ==
    Add64(Shr64(MulWordHigh(w, other), 32),
          IF Lt64(MulWordSum(w, other), MulWordLow(w, other)) THEN One64 ELSE Zero64)
\* mul_u32 that returns the sums of the words without their carries
MulU32NoCarry(u, other) ==
    << MulWordSum(u[1], other), MulWordSum(u[2], other),
       MulWordSum(u[3], other), MulWordSum(u[4], other) >>
mul_u32(u, other) ==
    U256Add(<< MulWordSum(u[1], other), MulWordSum(u[2], other),
              MulWordSum(u[3], other), MulWordSum(u[4], other) >>,
           << Zero64, MulWordCarry(u[1], other), MulWordCarry(u[2], other),
              MulWordCarry(u[3], other) >>)

\* Mul: the eight u32 of other, the least significant first
RECURSIVE MulFrom(_, _, _, _)
MulFrom(me, a, b, i) ==
    IF i = 2 * NWords \/ Len(me) # NWords THEN me
    ELSE MulFrom(U256Add(me, U256Shl(mul_u32(a, low_u32(U256Shr(b, 32 * i))), 32 * i)),
                 a, b, i + 1)
U256Mul(a, b) == MulFrom(U256Zero, a, b, 0)

\* div_rem: the assertion, the early return, the bitwise long division
SetBit(ret, shift) ==
    [ret EXCEPT ![(shift \div WordBits) + 1] = Or64(@, Shl64(One64, shift % WordBits))]
DivStep(st) ==
    IF U256Ge(st.sub_copy, st.shift_copy)
    THEN [ret |-> SetBit(st.ret, st.shift),
          sub_copy |-> U256Sub(st.sub_copy, st.shift_copy),
          shift_copy |-> U256Shr(st.shift_copy, 1), shift |-> st.shift - 1]
    ELSE [st EXCEPT !.shift_copy = U256Shr(@, 1), !.shift = @ - 1]
\* the turns of the loop, a word of the quotient at a time
RECURSIVE DivTurns(_, _)
DivTurns(st, n) ==
    IF n = 0 \/ st.shift < 0 THEN st ELSE DivTurns(DivStep(st), n - 1)
RECURSIVE DivLoop(_)
DivLoop(st) == IF st.shift < 0 THEN st ELSE DivLoop(DivTurns(st, WordBits))
DivDone(st) == [kind |-> "ok", quotient |-> st.ret, remainder |-> st.sub_copy]
DivStart(a, b, shift) ==
    [ret |-> U256Zero, sub_copy |-> a, shift_copy |-> U256Shl(b, shift),
     shift |-> shift]
DivChecked(a, b, my_bits, your_bits) ==
    IF your_bits = 0 THEN [kind |-> "panic"]
    ELSE IF my_bits < your_bits
         THEN [kind |-> "ok", quotient |-> U256Zero, remainder |-> a]
         ELSE DivDone(DivLoop(DivStart(a, b, my_bits - your_bits)))
\* div_rem without its assertion
DivRemUnchecked(a, b) ==
    IF U256Bits(a) < U256Bits(b)
    THEN [kind |-> "ok", quotient |-> U256Zero, remainder |-> a]
    ELSE DivDone(DivLoop(DivStart(a, b, U256Bits(a) - U256Bits(b))))
div_rem(a, b) == DivChecked(a, b, U256Bits(a), U256Bits(b))

\* Div and Rem: the halves of div_rem
Quotient(r) ==
    IF r.kind = "ok" THEN [kind |-> "ok", value |-> r.quotient] ELSE [kind |-> "panic"]
Remainder(r) ==
    IF r.kind = "ok" THEN [kind |-> "ok", value |-> r.remainder] ELSE [kind |-> "panic"]
U256Div(a, b) == Quotient(div_rem(a, b))
U256Rem(a, b) == Remainder(div_rem(a, b))

(***************************************************************************)
(* pow.rs.  A u32 is held as its two limbs, the low one first.             *)
(***************************************************************************)
ExponentBits == 8
MantissaBits == 24
\* the first mantissa that is negative: 0x7FFFFF + 1
SignBit == 2 ^ (MantissaBits - 1)

\* bits >> 24 and bits & 0xFFFFFF
UnshiftedExpt(bits) == bits[2] \div Pow2(LimbBits - ExponentBits)
MantissaField(bits) == (bits[2] % Pow2(LimbBits - ExponentBits)) * Limb + bits[1]

\* lines 4-11: the pair (mant, expt)
Mant(bits) ==
    IF UnshiftedExpt(bits) <= 3
    THEN MantissaField(bits) \div Pow2(8 * (3 - UnshiftedExpt(bits)))
    ELSE MantissaField(bits)
Expt(bits) ==
    IF UnshiftedExpt(bits) <= 3 THEN 0 ELSE 8 * (UnshiftedExpt(bits) - 3)

\* the decoding with a negative mantissa taken for the greatest target
\* instead of for zero
CompactNegativeAsMax(bits) ==
    IF Mant(bits) > SignBit - 1 THEN U256Not(U256Zero)
    ELSE U256Shl(from_u64(Word(Mant(bits))), Expt(bits))
\* lines 13-18
u256_from_compact_target(bits) ==
    IF Mant(bits) > SignBit - 1 THEN U256Zero
    ELSE U256Shl(from_u64(Word(Mant(bits))), Expt(bits))

\* difficulty of pow.rs: the increment, the division that may panic, the
\* low word of the quotient
LowWord(q) ==
    IF q.kind = "ok" THEN [kind |-> "ok", value |-> low_u64(q.value)]
    ELSE [kind |-> "panic"]
TargetDifficulty(target) == LowWord(U256Div(U256Not(U256Zero), increment(target)))

\* the all-ones value, !U256::zero()
U256Max == U256Not(U256Zero)
\* a number of 92 bits
Pattern ==
    << << 4660, 22136, 39612, 57072 >>, << 65535, 4095, 0, 0 >>, Zero64, Zero64 >>

\* the u32 a header may carry as bits: every exponent, and the mantissas 0,
\* 1, one of middling size, the greatest positive, the least negative and
\* the greatest
Mantissas == {0, 1, 1193046, SignBit - 1, SignBit, 2 ^ MantissaBits - 1}
U32OfFields(e, m) == << m % Limb, (m \div Limb) + e * Pow2(LimbBits - ExponentBits) >>
CompactBits ==
    {U32OfFields(e, m) : e \in 0..(2 ^ ExponentBits - 1), m \in Mantissas}
\* those of them difficulty is explored for: exponents that cut the
\* mantissa, that leave it in the low word, that put it inside a higher
\* word, across two words, across bit 255 and past it
Exponents == {0, 1, 2, 3, 4, 5, 11, 12, 20, 32, 33, 34, 35, 36, 255}
TemplateBits == {U32OfFields(e, m) : e \in Exponents, m \in Mantissas}

\* the targets difficulty is called with on their own
Targets ==
    {U256Zero, U256One, from_u64(Word(2)), from_u64(Word(3)),
     from_u64(Not64(Zero64)), U256Sub(U256Shl(U256One, 192), U256One),
     U256Shl(U256One, 192), U256Shl(Pattern, 150), U256Shl(U256One, 255),
     U256Sub(U256Max, U256One), U256Max}

\* the operands of the U256 operators
Operands ==
    {U256Zero, U256One, from_u64(Word(2)), from_u64(Word(3)),
     from_u64(<< Limb - 1, Limb - 1, 0, 0 >>), U256Shl(U256One, 64), Pattern,
     U256Add(U256Shl(U256One, 128), from_u64(Word(5))), U256Shl(U256One, 255),
     U256Max}

\* no call made yet
NoCalc == [op |-> "idle", a |-> None, b |-> None, out |-> None, prev |-> None]
Ok(value) == [kind |-> "ok", value |-> value]

\* no call of hash in progress
NoHasher == [pc |-> "idle", header |-> None, pre_pow |-> FALSE, done |-> 0,
             state |-> None, result |-> None, prev |-> None]

\* Jobs::new, Stratum::new and KaspadHandle::new: an empty cache, an empty
\* FIFO, an empty watch cell, no connection
InitParts ==
    /\ next = 0
    /\ jobs = << >>
    /\ pending = << >>
    /\ pendingLock = 0
    /\ cmdRead = 0
    /\ inbound = << >>
    /\ acks = << >>
    /\ clientUp = TRUE
    /\ mainUp = TRUE
    /\ msgs = << >>
    /\ latest = None
    /\ version = 0
    /\ worker = 0
    /\ sess = [s \in Conns |-> NoConn]
    /\ out = [s \in Conns |-> << >>]
    /\ handled = << >>
    /\ subs = << >>
    /\ nAccept = 0
    /\ nNotify = 0
    /\ pc = [c \in Callers |-> "idle"]
    /\ frame = [c \in Callers |-> NoFrame]
    /\ recvOpen = [c \in Callers |-> TRUE]
    /\ reply = [c \in Callers |-> << >>]
    /\ returns = << >>
    /\ resolves = << >>
    /\ lastInsert = None
    /\ nInsert = 0
    /\ nInserted = 0
    /\ nSubmit = 0
    /\ hasher = NoHasher
    /\ calc = NoCalc

\* the cache of jobs.rs on its own: nothing has been sent upstream
InitJobs == InitParts /\ cmd = << >>


(***************************************************************************)
(* Jobs::insert (jobs.rs 29-51; server.rs 239-261 is the same code).       *)
(***************************************************************************)
\* the id insert hands out: the new slot while the cache grows, `next` after
InsertId(len, nxt) == IF len < JobSlots THEN len ELSE nxt

\* an insert that pushes whatever the length of the cache
InsertJobsUnbounded(js, id, template) == Append(js, template)

\* the cached templates after insert: pushed while the cache grows, and
\* left as they are once it is full
InsertJobs(js, id, template) ==
    IF Len(js) < JobSlots THEN Append(js, template) ELSE js

\* JobParams
JobParams(id, pre_pow, difficulty, timestamp) ==
    [id |-> id, pre_pow |-> pre_pow, difficulty |-> difficulty,
     timestamp |-> timestamp]

\* the call itself: what it leaves in the cache and what it returns
InsertCall(template) ==
    LET id == InsertId(Len(jobs), next)
    IN  /\ nInsert' = nInsert + 1
        /\ IF ~IsSome(template.header) \/ ~IsSome(PrePow(template))
           THEN /\ lastInsert' = None
                /\ UNCHANGED << next, jobs, nInserted >>
           ELSE /\ jobs' = InsertJobs(jobs, id, template)
                /\ next' = WrapInc(id)
                /\ nInserted' = nInserted + 1
                /\ lastInsert' = Some(JobParams(id, Unwrap(PrePow(template)),
                                                Unwrap(template.header).difficulty,
                                                Unwrap(template.header).timestamp))

\* a task calls insert with the next template
Insert(kind, limit) ==
    /\ nInsert < limit
    /\ InsertCall(Template(nInsert + 1, kind))
    /\ UNCHANGED << fifoVars, cmd, nodeVars, connVars,
                    callVars >>

(***************************************************************************)
(* Jobs::submit (jobs.rs 53-83), one action per critical section.          *)
(***************************************************************************)
\* a lookup that falls back to the newest slot when the id names none
JobsGetNewest(js, job_id) ==
    IF js = << >> THEN None
    ELSE Some(js[IF job_id + 1 <= Len(js) THEN job_id + 1 ELSE Len(js)])

\* r.jobs.get(job_id)
JobsGet(js, job_id) == IF job_id + 1 <= Len(js) THEN Some(js[job_id + 1]) ELSE None

\* submit that sets the nonce on the cached template instead of a clone
JobsNonceInPlace(js, job_id, nonce) ==
    [js EXCEPT ![job_id + 1] =
        [@ EXCEPT !.header = Some([Unwrap(@) EXCEPT !.nonce = nonce])]]

\* what the cache holds after submit has cloned a slot (`b.clone()`) and set
\* the nonce on the clone
JobsAfterSubmit(js, job_id, nonce) == js

\* a submit that pushes and sends without holding the mutex
NoPendingLock(task) == TRUE

\* UnboundedSender::send on the command channel: the payload is queued while
\* the receiver lives; once it is gone the send is an error, which
\* KaspadHandle::submit_block discards (`let _ =`) and request_template
\* reports as false
SendCmd(p) == IF clientUp THEN Append(cmd, p) ELSE cmd

\* tokio Mutex::lock().await returns once no task holds the mutex
CanLockPending(task) == pendingLock = 0

\* the value submit returns, logged with whether its send was queued
Return(c, f, ok) ==
    returns' = Append(returns, [by |-> c, id |-> f.id, job_id |-> f.job_id,
                                nonce |-> f.nonce, ok |-> ok,
                                sent |-> ok /\ clientUp])

\* lines 60-67: the read lock, the clone, the early return
SubmitRead(c, rpc_id, job_id, nonce, limit) ==
    LET got == JobsGet(jobs, job_id)
        f   == [id |-> rpc_id, job_id |-> job_id, nonce |-> nonce,
                wrapped |-> (nInsert > JobSlots),
                block |-> IF IsSome(got) THEN Unwrap(got) ELSE NoFrame.block]
    IN  /\ pc[c] = "idle"
        /\ recvOpen[c]
        /\ nSubmit < limit
        /\ nSubmit' = nSubmit + 1
        /\ IF IsSome(got) /\ IsSome(Unwrap(got).header)
           THEN /\ pc' = [pc EXCEPT ![c] = "cloned"]
                /\ frame' = [frame EXCEPT ![c] = f]
                /\ UNCHANGED returns
           ELSE /\ Return(c, f, FALSE)
                /\ UNCHANGED << pc, frame >>
        /\ UNCHANGED << cacheVars, pending, pendingLock, cmd, recvOpen, reply,
                        resolves, nodeVars, connVars,
                    callVars >>

\* lines 72-73: take the pending mutex and push the Pending entry
SubmitPush(c) ==
    /\ pc[c] = "cloned"
    /\ CanLockPending(c)
    /\ pendingLock' = c
    /\ pending' = Append(pending, [id |-> frame[c].id, send |-> c])
    /\ pc' = [pc EXCEPT ![c] = "pushed"]
    /\ UNCHANGED << cacheVars, cmd, frame, recvOpen, reply, returns, resolves,
                    nSubmit, nodeVars, connVars,
                    callVars >>

\* lines 75-79: set the nonce on the clone, send it upstream, drop the guard
SubmitSend(c) ==
    LET f == frame[c]
    IN  /\ pc[c] = "pushed"
        /\ cmd' = SendCmd(SubmitBlock(WithNonce(f.block, f.nonce),
                                   [by |-> c, id |-> f.id, job_id |-> f.job_id,
                                    nonce |-> f.nonce, wrapped |-> f.wrapped]))
        /\ jobs' = JobsAfterSubmit(jobs, f.job_id, f.nonce)
        /\ pendingLock' = IF pendingLock = c THEN 0 ELSE pendingLock
        /\ pc' = [pc EXCEPT ![c] = "idle"]
        /\ frame' = [frame EXCEPT ![c] = NoFrame]
        /\ Return(c, f, TRUE)
        /\ UNCHANGED << next, lastInsert, nInsert, nInserted, pending, recvOpen, reply,
                        resolves, nSubmit, nodeVars, connVars,
                    callVars >>

(***************************************************************************)
(* Jobs::resolve_pending (85-92) with Pending::resolve (126-131).  The     *)
(* guard of the mutex lives for the whole statement.                       *)
(***************************************************************************)
Errors == {None, Some("bad")}

PendingResult(id, error) == [id |-> id, error |-> error]

\* Pending::resolve where a closed receiver reroutes the result to the task
\* of the entry behind it
ResolveOrNext(p, error, rest) ==
    IF recvOpen[p.send]
    THEN [reply EXCEPT ![p.send] = Append(@, PendingResult(p.id, error))]
    ELSE IF rest # << >> /\ recvOpen[Head(rest).send]
         THEN [reply EXCEPT ![Head(rest).send] = Append(@, PendingResult(p.id, error))]
         ELSE reply

\* Pending::resolve: `let _ = self.send.send(result)`; the send fails when
\* the receiver is gone and the error is dropped.  `rest` is what is left
\* in the FIFO, which resolve does not see.
Resolve(p, error, rest) ==
    IF recvOpen[p.send]
    THEN [reply EXCEPT ![p.send] = Append(@, PendingResult(p.id, error))]
    ELSE reply

\* the mutex guard kept when nothing was popped
GuardKeptOnEmpty(found) == IF found THEN 0 ELSE -1

\* the mutex after resolve_pending: the guard, a temporary of the `if let`,
\* is dropped at the end of the statement in both branches
GuardDropped(found) == 0

ResolvePending(error) ==
    /\ clientUp
    /\ Len(resolves) < MaxResolves
    /\ CanLockPending(0)
    /\ IF pending # << >>
       THEN LET p == Head(pending)
            IN  /\ pending' = Tail(pending)
                /\ reply' = Resolve(p, error, Tail(pending))
                /\ resolves' = Append(resolves,
                       [found |-> TRUE, to |-> p.send, id |-> p.id,
                        error |-> error, open |-> recvOpen[p.send]])
       ELSE /\ resolves' = Append(resolves,
                       [found |-> FALSE, to |-> 0, id |-> 0,
                        error |-> error, open |-> FALSE])
            /\ UNCHANGED << pending, reply >>
    /\ pendingLock' = GuardDropped(pending # << >>)
    /\ UNCHANGED << cacheVars, cmd, pc, frame, recvOpen, returns,
                    nSubmit, nodeVars, connVars,
                    callVars >>

\* a task that owns a reply channel ends: its receiver is dropped
Close(c) ==
    /\ pc[c] = "idle"
    /\ recvOpen[c]
    /\ recvOpen' = [recvOpen EXCEPT ![c] = FALSE]
    /\ UNCHANGED << cacheVars, pending, pendingLock, cmd, pc, frame, reply,
                    returns, resolves, nSubmit, nodeVars, connVars,
                    callVars >>

\* the receiver of the command channel is dropped (it lives in the stream
\* of ClientTask::run, kaspad.rs 60-66, which ends with the task)
StreamEnd ==
    /\ clientUp
    /\ clientUp' = FALSE
    /\ UNCHANGED << cacheVars, fifoVars, cmd, cmdRead, inbound, acks, mainUp,
                    msgs, nNotify, connVars,
                    callVars >>

NextJobs ==
    \/ \E kind \in TemplateKinds : Insert(kind, MaxInserts)
    \/ \E c \in Callers, r \in Requests :
           SubmitRead(c, r.id, r.job_id, r.nonce, MaxSubmits)
    \/ \E c \in Callers : SubmitPush(c)
    \/ \E c \in Callers : SubmitSend(c)
    \/ \E error \in Errors : ResolvePending(error)
    \/ \E c \in Callers : Close(c)
    \/ StreamEnd

SpecJobs == InitJobs /\ [][NextJobs]_vars

(***************************************************************************)
(* The two locks of the cache: submit holds the read lock on {next, jobs}  *)
(* from the moment it is granted to the end of the block of jobs.rs 60-67, *)
(* and insert waits for the write lock while a task reads.                 *)
(***************************************************************************)
\* the tasks that hold the read lock
Reading == {c \in Callers : pc[c] = "reading"}

\* line 61: `self.inner.read().await` is granted
SubmitLock(c, rpc_id, job_id, nonce, limit) ==
    /\ pc[c] = "idle"
    /\ recvOpen[c]
    /\ nSubmit < limit
    /\ nSubmit' = nSubmit + 1
    /\ pc' = [pc EXCEPT ![c] = "reading"]
    /\ frame' = [frame EXCEPT ![c] = [NoFrame EXCEPT !.id = rpc_id,
                                                     !.job_id = job_id,
                                                     !.nonce = nonce]]
    /\ UNCHANGED << cacheVars, pending, pendingLock, cmd, recvOpen, reply,
                    returns, resolves, nodeVars, connVars, callVars >>

\* lines 62-67: the clone or the early return; the read guard is dropped
\* with the block either way
SubmitClone(c) ==
    LET got == JobsGet(jobs, frame[c].job_id)
        f   == [frame[c] EXCEPT !.wrapped = (nInsert > JobSlots),
                                !.block = IF IsSome(got) THEN Unwrap(got) ELSE @]
    IN  /\ pc[c] = "reading"
        /\ IF IsSome(got) /\ IsSome(Unwrap(got).header)
           THEN /\ pc' = [pc EXCEPT ![c] = "cloned"]
                /\ frame' = [frame EXCEPT ![c] = f]
                /\ UNCHANGED returns
           ELSE /\ Return(c, f, FALSE)
                /\ pc' = [pc EXCEPT ![c] = "idle"]
                /\ frame' = [frame EXCEPT ![c] = NoFrame]
        /\ UNCHANGED << cacheVars, pending, pendingLock, cmd, recvOpen, reply,
                        resolves, nSubmit, nodeVars, connVars, callVars >>

\* line 35: `self.inner.write().await` is granted once no task reads; the
\* rest of insert has no await
InsertLocked(kind, limit) == Reading = {} /\ Insert(kind, limit)

NextLocks ==
    \/ \E kind \in TemplateKinds : InsertLocked(kind, MaxInserts)
    \/ \E c \in Callers, r \in Requests :
           SubmitLock(c, r.id, r.job_id, r.nonce, MaxSubmits)
    \/ \E c \in Callers : SubmitClone(c)
    \/ \E c \in Callers : SubmitPush(c)
    \/ \E c \in Callers : SubmitSend(c)
    \/ \E error \in Errors : ResolvePending(error)

SpecLocks == InitJobs /\ [][NextLocks]_vars

\* tokio runs a task that is ready, and its Mutex grants the lock in the
\* order of the requests, so a task that waits for it is not passed over
\* for ever
FairLocks ==
    /\ SpecLocks
    /\ \A c \in Callers :
           /\ WF_vars(SubmitClone(c))
           /\ SF_vars(SubmitPush(c))
           /\ WF_vars(SubmitSend(c))

(***************************************************************************)
(* A call of RpcBlockHeader::hash, one statement at a time.                *)
(***************************************************************************)
\* lines 234-237: the keyed state
HashCall(header, pre_pow) ==
    /\ hasher.pc = "idle"
    /\ hasher' = [pc |-> "hashing", header |-> Some(header), pre_pow |-> pre_pow,
                  done |-> 0, state |-> Some(BlakeNew(HashLength, BlockHashKey)),
                  result |-> None, prev |-> None]
    /\ UNCHANGED << cacheVars, fifoVars, cmd, nodeVars, connVars, calc >>

\* whether two headers are equal in every field except timestamp and nonce
SameButStamp(h1, h2) ==
    [h1 EXCEPT !.timestamp = h2.timestamp, !.nonce = h2.nonce] = h2

\* a second call of hash, in the same mode, for a header that differs from
\* the one just hashed in its timestamp and nonce alone, as the block a
\* miner submits differs from the template it was given; the header and
\* the digest of the first call are kept for the comparison
HashAgain(header) ==
    /\ hasher.pc = "ok"
    /\ hasher.prev = None
    /\ header # Unwrap(hasher.header)
    /\ SameButStamp(header, Unwrap(hasher.header))
    /\ hasher' = [pc |-> "hashing", header |-> Some(header),
                  pre_pow |-> hasher.pre_pow, done |-> 0,
                  state |-> Some(BlakeNew(HashLength, BlockHashKey)),
                  result |-> None,
                  prev |-> Some([header |-> Unwrap(hasher.header),
                                 result |-> Unwrap(hasher.result)])]
    /\ UNCHANGED << cacheVars, fifoVars, cmd, nodeVars, connVars, calc >>

\* the next statement of lines 239-283: an update of the state, or the
\* return of a decoding error, or a panic
HashUpdate ==
    /\ hasher.pc = "hashing"
    /\ LET ups == HashUpdates(Unwrap(hasher.header), hasher.pre_pow)
       IN  /\ hasher.done < Len(ups)
           /\ LET u == ups[hasher.done + 1]
              IN  hasher' =
                      IF u.kind = "bytes"
                      THEN [hasher EXCEPT
                                !.done = @ + 1,
                                !.state = Some(BlakeUpdate(Unwrap(@), u.bytes))]
                      ELSE [hasher EXCEPT !.pc = u.kind, !.state = None]
    /\ UNCHANGED << cacheVars, fifoVars, cmd, nodeVars, connVars, calc >>

\* line 285: Ok(state.finalize())
HashFinalize ==
    /\ hasher.pc = "hashing"
    /\ hasher.done = Len(HashUpdates(Unwrap(hasher.header), hasher.pre_pow))
    /\ hasher' = [hasher EXCEPT !.pc = "ok", !.state = None,
                                !.result = Some(BlakeFinalize(Unwrap(hasher.state)))]
    /\ UNCHANGED << cacheVars, fifoVars, cmd, nodeVars, connVars, calc >>

NextHash ==
    \/ \E header \in Headers, pre_pow \in BOOLEAN : HashCall(header, pre_pow)
    \/ \E header \in Headers : HashAgain(header)
    \/ HashUpdate
    \/ HashFinalize

SpecHash == InitJobs /\ [][NextHash]_vars

(***************************************************************************)
(* Calls of the functions of pow.rs and of the operators of U256, each a   *)
(* step from its arguments to what it returns.                             *)
(***************************************************************************)
\* u256_from_compact_target(bits)
DecodeCall(bits) ==
    /\ calc.op = "idle"
    /\ calc' = [op |-> "decode", a |-> Some(bits), b |-> None,
                out |-> Some(Ok(u256_from_compact_target(bits))), prev |-> None]
    /\ UNCHANGED << cacheVars, fifoVars, cmd, nodeVars, connVars, hasher >>

\* difficulty(u256_from_compact_target(bits)): difficulty of the target
\* just decoded
DifficultyOfDecoded ==
    /\ calc.op = "decode"
    /\ calc' = [op |-> "difficulty", a |-> Some(Unwrap(calc.out).value), b |-> None,
                out |-> Some(TargetDifficulty(Unwrap(calc.out).value)),
                prev |-> Some(calc)]
    /\ UNCHANGED << cacheVars, fifoVars, cmd, nodeVars, connVars, hasher >>

\* difficulty(target), the first call of it or the second
DifficultyCall(target) ==
    /\ \/ calc.op = "idle"
       \/ calc.op = "difficulty" /\ calc.prev = None
    /\ calc' = [op |-> "difficulty", a |-> Some(target), b |-> None,
                out |-> Some(TargetDifficulty(target)),
                prev |-> IF calc.op = "idle" THEN None ELSE Some(calc)]
    /\ UNCHANGED << cacheVars, fifoVars, cmd, nodeVars, connVars, hasher >>

\* a * b
MulCall(a, b) ==
    /\ calc.op = "idle"
    /\ calc' = [op |-> "mul", a |-> Some(a), b |-> Some(b),
                out |-> Some(Ok(U256Mul(a, b))), prev |-> None]
    /\ UNCHANGED << cacheVars, fifoVars, cmd, nodeVars, connVars, hasher >>

\* a / b
DivCall(a, b) ==
    /\ calc.op = "idle"
    /\ calc' = [op |-> "div", a |-> Some(a), b |-> Some(b),
                out |-> Some(U256Div(a, b)), prev |-> None]
    /\ UNCHANGED << cacheVars, fifoVars, cmd, nodeVars, connVars, hasher >>

\* (a * b) / c: the product just computed, divided
DivProduct(c) ==
    /\ calc.op = "mul"
    /\ calc' = [op |-> "div", a |-> Some(Unwrap(calc.out).value), b |-> Some(c),
                out |-> Some(U256Div(Unwrap(calc.out).value, c)),
                prev |-> Some(calc)]
    /\ UNCHANGED << cacheVars, fifoVars, cmd, nodeVars, connVars, hasher >>

\* a % b
RemCall(a, b) ==
    /\ calc.op = "idle"
    /\ calc' = [op |-> "rem", a |-> Some(a), b |-> Some(b),
                out |-> Some(U256Rem(a, b)), prev |-> None]
    /\ UNCHANGED << cacheVars, fifoVars, cmd, nodeVars, connVars, hasher >>

NextDecode == \E bits \in CompactBits : DecodeCall(bits)

SpecDecode == InitJobs /\ [][NextDecode]_vars

NextPow ==
    \/ \E bits \in TemplateBits : DecodeCall(bits)
    \/ DifficultyOfDecoded
    \/ \E target \in Targets : DifficultyCall(target)

SpecPow == InitJobs /\ [][NextPow]_vars

NextUint ==
    \/ \E a \in Operands, b \in Operands : MulCall(a, b)
    \/ \E a \in Operands, b \in Operands : DivCall(a, b)
    \/ \E c \in Operands : DivProduct(c)
    \/ \E a \in Operands, b \in Operands : RemCall(a, b)

SpecUint == InitJobs /\ [][NextUint]_vars

(***************************************************************************)
(* The program as main.rs wires it.  The node is the environment: it       *)
(* receives the payloads of the command channel in order and answers each. *)
(***************************************************************************)
GetInfo == [type |-> "GetInfoRequest"]
NotifyNewBlockTemplate == [type |-> "NotifyNewBlockTemplateRequest"]
GetBlockTemplate == [type |-> "GetBlockTemplateRequest"]

\* requests queued template first
StartupCommandsTemplateFirst ==
    << GetBlockTemplate, GetInfo, NotifyNewBlockTemplate >>

\* the requests Client::new queues (kaspad.rs 168-177), in its order
StartupCommands == << GetInfo, NotifyNewBlockTemplate, GetBlockTemplate >>

\* main.rs 40-49: Client::new has sent its three requests
Init == InitParts /\ cmd = << GetInfo, NotifyNewBlockTemplate, GetBlockTemplate >>

\* how far Client::new is: the requests on the channel that are not a
\* session's SubmitBlock (main queues its own only after Client::new)
StartupSent == Len(SelectSeq(cmd, LAMBDA p : p.type # "SubmitBlock"))

\* main has entered its message loop: the three requests are queued, or the
\* third was refused, which request_template reports and Client::new ignores
Started ==
    \/ StartupSent >= Len(StartupCommands)
    \/ StartupSent = Len(StartupCommands) - 1 /\ ~clientUp

\* Client::new, one send: the first two are unwrapped, and main panics on
\* the error of a channel whose receiver went with a client task that has
\* already ended
StartupSend ==
    /\ mainUp
    /\ ~Started
    /\ cmd' = SendCmd(StartupCommands[StartupSent + 1])
    /\ mainUp' = clientUp
    /\ UNCHANGED << cacheVars, fifoVars, cmdRead, inbound, acks, clientUp, msgs,
                    nNotify, connVars,
                    callVars >>

RejectReasons == {"None", "BlockInvalid"}

\* the answers the node may give to a payload; `n` numbers the templates
NodeAnswers(p, n) ==
    CASE p.type = "GetInfoRequest" ->
             { [type |-> "GetInfoResponse"] }
      [] p.type = "NotifyNewBlockTemplateRequest" ->
             { [type |-> "NotifyNewBlockTemplateResponse", error |-> e] : e \in Errors }
      [] p.type = "GetBlockTemplateRequest" ->
             { [type |-> "GetBlockTemplateResponse", error |-> Some("bad"), block |-> None],
               [type |-> "GetBlockTemplateResponse", error |-> None, block |-> None] }
             \cup { [type |-> "GetBlockTemplateResponse", error |-> None,
                     block |-> Some(Template(n, kind))] : kind \in TemplateKinds }
      [] p.type = "SubmitBlock" ->
             { [type |-> "SubmitBlockResponse", reject_reason |-> r, error |-> e] :
                   r \in RejectReasons, e \in Errors }

\* the stream of kaspad.rs 61-67 hands the next payload to the node, which
\* answers it
NodeReceive ==
    /\ clientUp
    /\ cmdRead < Len(cmd)
    /\ LET p == cmd[cmdRead + 1]
           n == Len(SelectSeq(SubSeq(cmd, 1, cmdRead + 1),
                              LAMBDA q : q.type = "GetBlockTemplateRequest"))
       IN  \E a \in NodeAnswers(p, n) : inbound' = Append(inbound, a)
    /\ cmdRead' = cmdRead + 1
    /\ UNCHANGED << cacheVars, fifoVars, cmd, acks, clientUp, mainUp, msgs,
                    nNotify, connVars,
                    callVars >>

\* the node announces a new template
NodeNotify ==
    /\ clientUp
    /\ nNotify < MaxNotifies
    /\ nNotify' = nNotify + 1
    /\ inbound' = Append(inbound, [type |-> "NewBlockTemplateNotification"])
    /\ UNCHANGED << cacheVars, fifoVars, cmd, cmdRead, acks, clientUp, mainUp,
                    msgs, connVars,
                    callVars >>

\* the node sends a payload that ClientTask::run has no arm for
NodeOther ==
    /\ clientUp
    /\ nNotify < MaxNotifies
    /\ nNotify' = nNotify + 1
    /\ inbound' = Append(inbound, [type |-> "GetBlockDagInfoResponse"])
    /\ UNCHANGED << cacheVars, fifoVars, cmd, cmdRead, acks, clientUp, mainUp,
                    msgs, connVars,
                    callVars >>

\* a client that forwards every template block, with or without a header
ClientRecvAnyBlock ==
    /\ clientUp
    /\ inbound # << >>
    /\ inbound' = Tail(inbound)
    /\ LET p == Head(inbound)
       IN  CASE p.type = "GetInfoResponse" ->
                    /\ msgs' = Append(msgs, [type |-> "Info"])
                    /\ UNCHANGED << acks, clientUp >>
             [] p.type = "SubmitBlockResponse" ->
                    /\ acks' = Append(acks, [reject_reason |-> p.reject_reason,
                                             error |-> p.error])
                    /\ UNCHANGED << msgs, clientUp >>
             [] p.type = "GetBlockTemplateResponse" ->
                    /\ msgs' = IF ~IsSome(p.error) /\ IsSome(p.block)
                               THEN Append(msgs, [type |-> "Template",
                                                  block |-> Unwrap(p.block)])
                               ELSE msgs
                    /\ UNCHANGED << acks, clientUp >>
             [] p.type = "NewBlockTemplateNotification" ->
                    /\ msgs' = Append(msgs, [type |-> "NewTemplate"])
                    /\ UNCHANGED << acks, clientUp >>
             [] p.type = "NotifyNewBlockTemplateResponse" ->
                    /\ clientUp' = ~IsSome(p.error)
                    /\ UNCHANGED << acks, msgs >>
             [] OTHER ->
                    UNCHANGED << acks, msgs, clientUp >>
    /\ UNCHANGED << fifoVars, cacheVars, cmd, cmdRead, mainUp, nNotify, connVars,
                    callVars >>

\* a client that logs a refused subscription and keeps running
ClientRecvIgnoresError ==
    /\ clientUp
    /\ inbound # << >>
    /\ inbound' = Tail(inbound)
    /\ LET p == Head(inbound)
       IN  CASE p.type = "GetInfoResponse" ->
                    /\ msgs' = Append(msgs, [type |-> "Info"])
                    /\ UNCHANGED << acks, clientUp >>
             [] p.type = "SubmitBlockResponse" ->
                    /\ acks' = Append(acks, [reject_reason |-> p.reject_reason,
                                             error |-> p.error])
                    /\ UNCHANGED << msgs, clientUp >>
             [] p.type = "GetBlockTemplateResponse" ->
                    /\ msgs' = IF ~IsSome(p.error) /\ IsSome(p.block)
                                  /\ IsSome(Unwrap(p.block).header)
                               THEN Append(msgs, [type |-> "Template",
                                                  block |-> Unwrap(p.block)])
                               ELSE msgs
                    /\ UNCHANGED << acks, clientUp >>
             [] p.type = "NewBlockTemplateNotification" ->
                    /\ msgs' = Append(msgs, [type |-> "NewTemplate"])
                    /\ UNCHANGED << acks, clientUp >>
             [] p.type = "NotifyNewBlockTemplateResponse" ->
                    UNCHANGED << acks, msgs, clientUp >>
             [] OTHER ->
                    UNCHANGED << acks, msgs, clientUp >>
    /\ UNCHANGED << fifoVars, cacheVars, cmd, cmdRead, mainUp, nNotify, connVars,
                    callVars >>

\* ClientTask::run, one turn of the loop of kaspad.rs 69-132.  The synced
\* flag only chooses log lines and is left out.
ClientRecv ==
    /\ clientUp
    /\ inbound # << >>
    /\ inbound' = Tail(inbound)
    /\ LET p == Head(inbound)
       IN  CASE p.type = "GetInfoResponse" ->
                    /\ msgs' = Append(msgs, [type |-> "Info"])
                    /\ UNCHANGED << acks, clientUp >>
             [] p.type = "SubmitBlockResponse" ->
                    \* lines 81-94: a log line for each case, then `continue`
                    /\ acks' = Append(acks, [reject_reason |-> p.reject_reason,
                                             error |-> p.error])
                    /\ UNCHANGED << msgs, clientUp >>
             [] p.type = "GetBlockTemplateResponse" ->
                    /\ msgs' = IF ~IsSome(p.error) /\ IsSome(p.block)
                                  /\ IsSome(Unwrap(p.block).header)
                               THEN Append(msgs, [type |-> "Template",
                                                  block |-> Unwrap(p.block)])
                               ELSE msgs
                    /\ UNCHANGED << acks, clientUp >>
             [] p.type = "NewBlockTemplateNotification" ->
                    /\ msgs' = Append(msgs, [type |-> "NewTemplate"])
                    /\ UNCHANGED << acks, clientUp >>
             [] p.type = "NotifyNewBlockTemplateResponse" ->
                    /\ clientUp' = ~IsSome(p.error)
                    /\ UNCHANGED << acks, msgs >>
             [] OTHER ->
                    \* lines 126-129: `continue`
                    UNCHANGED << acks, msgs, clientUp >>
    /\ UNCHANGED << fifoVars, cacheVars, cmd, cmdRead, mainUp, nNotify, connVars,
                    callVars >>

\* a broadcast that publishes whatever insert returned
BroadcastUnchecked(template) ==
    /\ InsertCall(template)
    /\ latest' = lastInsert'
    /\ version' = version + 1

\* Stratum::broadcast (server.rs 88-92): insert, and publish on success
Broadcast(template) ==
    /\ InsertCall(template)
    /\ latest' = IF IsSome(lastInsert') THEN lastInsert' ELSE latest
    /\ version' = IF IsSome(lastInsert') THEN version + 1 ELSE version

\* a request_template that reports success whatever the channel says
RequestTemplateUnchecked == [cmd |-> SendCmd(GetBlockTemplate), ok |-> TRUE]

\* Client::request_template (kaspad.rs 181-188): the send, and whether it
\* was accepted
RequestTemplate == [cmd |-> SendCmd(GetBlockTemplate), ok |-> clientUp]

\* main.rs 50-67, one turn of the loop
Supervisor ==
    /\ mainUp
    /\ Started
    /\ msgs # << >>
    /\ msgs' = Tail(msgs)
    /\ LET m == Head(msgs)
       IN  CASE m.type = "Info" ->
                    UNCHANGED << cacheVars, latest, version, cmd, mainUp >>
             [] m.type = "NewTemplate" ->
                    \* request_template: false once the receiver is gone
                    /\ cmd' = RequestTemplate.cmd
                    /\ mainUp' = RequestTemplate.ok
                    /\ UNCHANGED << cacheVars, latest, version >>
             [] m.type = "Template" ->
                    /\ Broadcast(m.block)
                    /\ UNCHANGED << cmd, mainUp >>
    /\ UNCHANGED << fifoVars, cmdRead, inbound, acks, clientUp, nNotify,
                    worker, sess, out, handled, subs, nAccept,
                    callVars >>

\* a main that stays in recv() when the channel has ended
SupervisorWaits ==
    /\ mainUp
    /\ Started
    /\ ~clientUp
    /\ msgs = << >>
    /\ UNCHANGED vars

\* main.rs 50: recv() yields None once the client task is gone and the
\* channel is drained; main returns
SupervisorEnd ==
    /\ mainUp
    /\ Started
    /\ ~clientUp
    /\ msgs = << >>
    /\ mainUp' = FALSE
    /\ UNCHANGED << cacheVars, fifoVars, cmd, cmdRead, inbound, acks, clientUp,
                    msgs, nNotify, connVars,
                    callVars >>

(***************************************************************************)
(* The stratum server of server.rs.                                        *)
(***************************************************************************)
\* a counter that wraps without skipping zero
WorkerNextPlain(w) == (w + 1) % (2 ^ WorkerBits)

\* server.rs 27-30: the worker counter skips zero
WorkerNext(w) ==
    LET v == (w + 1) % (2 ^ WorkerBits)
    IN  IF v = 0 THEN (v + 1) % (2 ^ WorkerBits) ELSE v

\* StratumTask::run, the Ok arm: a session is spawned for the connection
Accept(s, limit) ==
    /\ mainUp
    /\ nAccept < limit
    /\ sess[s].state = "none"
    /\ \A t \in Conns : t < s => sess[t].state # "none"
    /\ worker' = WorkerNext(worker)
    /\ sess' = [sess EXCEPT ![s] = [NoConn EXCEPT !.state = "open",
                                                  !.worker = WorkerNext(worker)]]
    /\ nAccept' = nAccept + 1
    /\ UNCHANGED << cacheVars, fifoVars, cmd, nodeVars, latest, version, out,
                    handled, subs,
                    callVars >>

\* StratumTask::run, the Err arm
AcceptError(limit) ==
    /\ mainUp
    /\ nAccept < limit
    /\ worker' = WorkerNext(worker)
    /\ nAccept' = nAccept + 1
    /\ UNCHANGED << cacheVars, fifoVars, cmd, nodeVars, latest, version, sess,
                    out, handled, subs,
                    callVars >>

OkResponse(id, result) == [id |-> id, result |-> result]
\* Response::err: the error is the triple (code, message, null)
ErrResponse(id, code, message) == [id |-> id, error |-> << code, message, None >>]

\* Request, as write_request builds it (server.rs 128-140)
Request(id, method, params) == [id |-> id, method |-> method, params |-> params]

\* hex::encode of the big-endian bytes of v, `len` bytes long
Hex(v, len) == [hex |-> v, len |-> len]

\* params that name the first slot whatever the job
NotifyParamsFirstSlot(j) == << Hex(0, 1), j.pre_pow, j.timestamp >>

\* JobParams::to_value: the job id as one hex byte, the pre-PoW hash and the
\* timestamp
NotifyParams(j) == << Hex(j.id, 1), j.pre_pow, j.timestamp >>

\* the states of a session that is about to call write_template: from the
\* mining.subscribe arm ("answering") or from the watch arm ("writing")
InTemplate == {"answering", "writing"}

\* write_template that sends the difficulty ahead of the job
WriteTemplateDifficultyFirst(c, cell) ==
    IF ~IsSome(cell)
    THEN [conn |-> c, lines |-> << >>]
    ELSE LET j == Unwrap(cell)
             d == Shr32(j.difficulty)
         IN  IF c.difficulty = 0
             THEN [conn  |-> [c EXCEPT !.id = c.id + 2, !.difficulty = d,
                                       !.notified = cell],
                   lines |-> << Request(c.id + 1, "mining.set_difficulty", << d >>),
                                Request(c.id + 2, "mining.notify", NotifyParams(j)) >>]
             ELSE [conn  |-> [c EXCEPT !.id = c.id + 1, !.notified = cell],
                   lines |-> << Request(c.id + 1, "mining.notify", NotifyParams(j)) >>]

\* a write_template whose two requests go out under one id
WriteTemplateOneId(c, cell) ==
    IF ~IsSome(cell)
    THEN [conn |-> c, lines |-> << >>]
    ELSE LET j      == Unwrap(cell)
             notify == Request(c.id + 1, "mining.notify", NotifyParams(j))
         IN  IF c.difficulty = 0
             THEN LET d == Shr32(j.difficulty)
                  IN  [conn  |-> [c EXCEPT !.id = c.id + 1, !.difficulty = d,
                                           !.notified = cell],
                       lines |-> << notify,
                                    Request(c.id + 1, "mining.set_difficulty",
                                            << d >>) >>]
             ELSE [conn  |-> [c EXCEPT !.id = c.id + 1, !.notified = cell],
                   lines |-> << notify >>]

\* write_template (108-126) for the StratumConn c reading `cell` from the
\* watch: the StratumConn it leaves and the lines it writes
WriteTemplate(c, cell) ==
    IF ~IsSome(cell)
    THEN [conn |-> c, lines |-> << >>]
    ELSE LET j      == Unwrap(cell)
             notify == Request(c.id + 1, "mining.notify", NotifyParams(j))
         IN  IF c.difficulty = 0
             THEN LET d == Shr32(j.difficulty)
                  IN  [conn  |-> [c EXCEPT !.id = c.id + 2, !.difficulty = d,
                                           !.notified = cell],
                       lines |-> << notify,
                                    Request(c.id + 2, "mining.set_difficulty",
                                            << d >>) >>]
             ELSE [conn  |-> [c EXCEPT !.id = c.id + 1, !.notified = cell],
                   lines |-> << notify >>]

\* StratumConn::run, the mining.subscribe arm up to its call of
\* write_template (177-186): the flag, the response, the set_extranonce
\* request
ConnSubscribe(s, rpc_id, limit) ==
    /\ mainUp
    /\ sess[s].state = "open"
    /\ Len(subs) < limit
    /\ sess' = [sess EXCEPT ![s].subscribed = TRUE,
                            ![s].id = @ + 1,
                            ![s].state = "answering"]
    /\ out' = [out EXCEPT ![s] = @ \o
                   << OkResponse(rpc_id, TRUE),
                      Request(sess[s].id + 1, "set_extranonce",
                              << Hex(sess[s].worker, 2), 6 >>) >>]
    /\ subs' = Append(subs, [sess |-> s, id |-> rpc_id,
                             outIx |-> Len(out[s]) + 1,
                             first |-> ~sess[s].subscribed])
    /\ UNCHANGED << cacheVars, fifoVars, cmd, nodeVars, latest, version, worker,
                    handled, nAccept,
                    callVars >>

\* a watch arm that calls write_template whether or not the session is
\* subscribed
ConnChangedUnchecked(s) ==
    /\ mainUp
    /\ sess[s].state = "open"
    /\ sess[s].seen # version
    /\ sess' = [sess EXCEPT ![s].seen = version, ![s].state = "writing"]
    /\ UNCHANGED << cacheVars, fifoVars, cmd, nodeVars, latest, version, worker,
                    out, handled, subs, nAccept,
                    callVars >>

\* StratumConn::run, the watch arm (163-173): changed() returns once the
\* cell holds a version this receiver has not seen, and marks it seen;
\* write_template follows if the session is subscribed
ConnChanged(s) ==
    /\ mainUp
    /\ sess[s].state = "open"
    /\ sess[s].seen # version
    /\ sess' = [sess EXCEPT ![s].seen = version,
                            ![s].state = IF sess[s].subscribed
                                         THEN "writing" ELSE "open"]
    /\ UNCHANGED << cacheVars, fifoVars, cmd, nodeVars, latest, version, worker,
                    out, handled, subs, nAccept,
                    callVars >>

\* write_template, called by either arm: it borrows the cell as it is now
ConnWriteTemplate(s) ==
    /\ mainUp
    /\ sess[s].state \in InTemplate
    /\ LET w == WriteTemplate(sess[s], latest)
       IN  /\ sess' = [sess EXCEPT ![s] = [w.conn EXCEPT !.state = "open"]]
           /\ out' = [out EXCEPT ![s] = @ \o w.lines]
    /\ UNCHANGED << cacheVars, fifoVars, cmd, nodeVars, latest, version, worker,
                    handled, subs, nAccept,
                    callVars >>

\* StratumConn::run, the mining.submit arm (188-200) with the submit of
\* server.rs 263-278: the slot is cloned, the nonce set on the clone, the
\* block sent upstream, and the response written at once
ConnSubmit(s, rpc_id, job_id, nonce, limit) ==
    LET got == JobsGet(jobs, job_id)
        hit == IsSome(got) /\ IsSome(Unwrap(got).header)
    IN  /\ mainUp
        /\ sess[s].state = "open"
        /\ Len(handled) < limit
        /\ cmd' = IF hit
                  THEN SendCmd(SubmitBlock(WithNonce(Unwrap(got), nonce),
                           [by |-> s, id |-> rpc_id, job_id |-> job_id,
                            nonce |-> nonce, wrapped |-> (nInsert > JobSlots)]))
                  ELSE cmd
        /\ jobs' = IF hit THEN JobsAfterSubmit(jobs, job_id, nonce) ELSE jobs
        /\ out' = [out EXCEPT ![s] = Append(@,
                       IF hit THEN OkResponse(rpc_id, TRUE)
                       ELSE ErrResponse(rpc_id, 20, "Unable to submit block"))]
        /\ handled' = Append(handled,
                         [sess |-> s, id |-> rpc_id, job_id |-> job_id,
                          nonce |-> nonce, hit |-> hit,
                          cmdIx |-> IF hit /\ clientUp THEN Len(cmd) + 1 ELSE 0,
                          outIx |-> Len(out[s]) + 1])
        /\ UNCHANGED << next, lastInsert, nInsert, nInserted, fifoVars, nodeVars, latest,
                        version, worker, sess, subs, nAccept,
                    callVars >>

\* the mining.submit arm when the params do not parse (189-191): `?` ends
\* run with the error
ConnSubmitMalformed(s) ==
    /\ mainUp
    /\ sess[s].state = "open"
    /\ sess' = [sess EXCEPT ![s].state = "failed"]
    /\ UNCHANGED << cacheVars, fifoVars, cmd, nodeVars, latest, version, worker, out,
                    handled, subs, nAccept,
                    callVars >>

\* a failure that takes the other sessions with it
ConnReadErrorShared(s) ==
    /\ mainUp
    /\ sess[s].state = "open"
    /\ sess' = [t \in Conns |->
                   IF sess[t].state = "open"
                   THEN [sess[t] EXCEPT !.state = "failed"] ELSE sess[t]]
    /\ UNCHANGED << cacheVars, fifoVars, cmd, nodeVars, latest, version, worker, out,
                    handled, subs, nAccept,
                    callVars >>

\* the read arm's error (207, read of 215-221): the socket fails or a line
\* is not a JSON request, and run returns the error
ConnReadError(s) ==
    /\ mainUp
    /\ sess[s].state = "open"
    /\ sess' = [sess EXCEPT ![s].state = "failed"]
    /\ UNCHANGED << cacheVars, fifoVars, cmd, nodeVars, latest, version, worker, out,
                    handled, subs, nAccept,
                    callVars >>

\* the reader is at its end (206): run returns
ConnEof(s) ==
    /\ mainUp
    /\ sess[s].state = "open"
    /\ sess' = [sess EXCEPT ![s].state = "closed"]
    /\ UNCHANGED << cacheVars, fifoVars, cmd, nodeVars, latest, version, worker, out,
                    handled, subs, nAccept,
                    callVars >>

\* the watch arm when the sender is gone (165-168): main has returned and
\* dropped the Stratum; run breaks out of its loop
ConnShutdown(s) ==
    /\ ~mainUp
    /\ sess[s].state \in {"open"} \cup InTemplate
    /\ sess' = [sess EXCEPT ![s].state = "closed"]
    /\ UNCHANGED << cacheVars, fifoVars, cmd, nodeVars, latest, version, worker,
                    out, handled, subs, nAccept,
                    callVars >>

\* the rpc id miners give their mining.subscribe requests
SubscribeIds == {3}

Next ==
    \/ NodeReceive
    \/ NodeNotify
    \/ NodeOther
    \/ ClientRecv
    \/ StreamEnd
    \/ Supervisor
    \/ SupervisorEnd
    \/ \E s \in Conns : Accept(s, MaxWiredAccepts)
    \/ AcceptError(MaxWiredAccepts)
    \/ \E s \in Conns, r \in Requests :
           ConnSubmit(s, r.id, r.job_id, r.nonce, MaxWiredSubmits)
    \/ \E s \in Conns : ConnSubmitMalformed(s)
    \/ \E s \in Conns : ConnEof(s)
    \/ \E s \in Conns, i \in SubscribeIds : ConnSubscribe(s, i, MaxWiredSubscribes)
    \/ \E s \in Conns : ConnChanged(s)
    \/ \E s \in Conns : ConnWriteTemplate(s)
    \/ \E s \in Conns : ConnShutdown(s)

Spec == Init /\ [][Next]_vars

(***************************************************************************)
(* The program from the moment Stratum::new has returned (main.rs 41):     *)
(* the acceptor is running, and Client::new spawns the upstream client and *)
(* queues its requests while miners already connect and submit.            *)
(***************************************************************************)
InitStartup == InitParts /\ cmd = << >>

NextStartup ==
    \/ StartupSend
    \/ NodeReceive
    \/ NodeNotify
    \/ ClientRecv
    \/ StreamEnd
    \/ Supervisor
    \/ SupervisorEnd
    \/ \E s \in Conns : Accept(s, MaxStartupAccepts)
    \/ \E s \in Conns, r \in Requests :
           ConnSubmit(s, r.id, r.job_id, r.nonce, MaxStartupSubmits)
    \/ \E s \in Conns : ConnShutdown(s)

SpecStartup == InitStartup /\ [][NextStartup]_vars

(***************************************************************************)
(* The upstream client, the node and main's loop, with no miner connected  *)
(* and a stream that stays open: the client task ends only by its own      *)
(* `break`.                                                                *)
(***************************************************************************)
NextClient ==
    \/ StartupSend
    \/ NodeReceive
    \/ NodeNotify
    \/ NodeOther
    \/ ClientRecv
    \/ Supervisor
    \/ SupervisorEnd

SpecClient == InitStartup /\ [][NextClient]_vars

(***************************************************************************)
(* The stratum server on its own (Stratum::new, before the upstream client *)
(* exists): templates arrive through broadcast, miners connect and submit. *)
(***************************************************************************)
InitConn == InitParts /\ cmd = << >>

\* main.rs 62-65: a Template message reaches broadcast
BroadcastCall(kind, limit) ==
    /\ mainUp
    /\ nInsert < limit
    /\ Broadcast(Template(nInsert + 1, kind))
    /\ UNCHANGED << fifoVars, cmd, nodeVars, worker, sess, out, handled, subs, nAccept,
                    callVars >>

NextConn ==
    \/ \E kind \in TemplateKinds : BroadcastCall(kind, MaxInserts)
    \/ \E s \in Conns : Accept(s, MaxAccepts)
    \/ AcceptError(MaxAccepts)
    \/ \E s \in Conns, r \in Requests :
           ConnSubmit(s, r.id, r.job_id, r.nonce, MaxConnSubmits)
    \/ \E s \in Conns : ConnSubmitMalformed(s)
    \/ \E s \in Conns : ConnReadError(s)
    \/ \E s \in Conns : ConnEof(s)
    \/ \E s \in Conns : ConnChanged(s)

SpecConn == InitConn /\ [][NextConn]_vars

(***************************************************************************)
(* The mining.submit arm of StratumConn::run taken one await at a time:    *)
(* the read of the cache, the send upstream and the write of the response, *)
(* while the node and the upstream client handle what was sent.            *)
(***************************************************************************)
\* server.rs 263-271: the read lock, the clone, the early return
ConnSubmitRead(s, rpc_id, job_id, nonce, limit) ==
    LET got == JobsGet(jobs, job_id)
        hit == IsSome(got) /\ IsSome(Unwrap(got).header)
    IN  /\ mainUp
        /\ sess[s].state = "open"
        /\ pc[s] = "idle"
        /\ nSubmit < limit
        /\ nSubmit' = nSubmit + 1
        /\ frame' = [frame EXCEPT ![s] =
                         [id |-> rpc_id, job_id |-> job_id, nonce |-> nonce,
                          wrapped |-> (nInsert > JobSlots),
                          block |-> IF hit THEN Unwrap(got) ELSE NoFrame.block]]
        /\ pc' = [pc EXCEPT ![s] = IF hit THEN "cloned" ELSE "missed"]
        /\ UNCHANGED << cacheVars, pending, pendingLock, recvOpen, reply, returns,
                        resolves, cmd, nodeVars, connVars, callVars >>

\* server.rs 272-276: the nonce is set on the clone, the block is sent
\* upstream and submit returns true
ConnSubmitSend(s) ==
    LET f == frame[s]
    IN  /\ pc[s] = "cloned"
        /\ cmd' = SendCmd(SubmitBlock(WithNonce(f.block, f.nonce),
                                   [by |-> s, id |-> f.id, job_id |-> f.job_id,
                                    nonce |-> f.nonce, wrapped |-> f.wrapped]))
        /\ pc' = [pc EXCEPT ![s] = "sent"]
        /\ UNCHANGED << cacheVars, pending, pendingLock, frame, recvOpen, reply,
                        returns, resolves, nSubmit, nodeVars, connVars, callVars >>

\* a session that leaves the answer to a true submit to the acknowledgement
ConnSubmitSilent(s) ==
    LET f == frame[s]
    IN  /\ sess[s].state = "open"
        /\ pc[s] \in {"sent", "missed"}
        /\ out' = [out EXCEPT ![s] =
                       IF pc[s] = "sent" THEN @
                       ELSE Append(@, ErrResponse(f.id, 20, "Unable to submit block"))]
        /\ handled' = Append(handled,
                         [sess |-> s, id |-> f.id, job_id |-> f.job_id,
                          nonce |-> f.nonce, hit |-> (pc[s] = "sent"),
                          cmdIx |-> 0, outIx |-> Len(out[s]) + 1])
        /\ pc' = [pc EXCEPT ![s] = "idle"]
        /\ frame' = [frame EXCEPT ![s] = NoFrame]
        /\ UNCHANGED << cacheVars, pending, pendingLock, recvOpen, reply, returns,
                        resolves, nSubmit, cmd, nodeVars, latest, version, worker,
                        sess, subs, nAccept, callVars >>

\* server.rs 192-199: the response to the request, written with its id
ConnSubmitRespond(s) ==
    LET f == frame[s]
    IN  /\ sess[s].state = "open"
        /\ pc[s] \in {"sent", "missed"}
        /\ out' = [out EXCEPT ![s] = Append(@,
                       IF pc[s] = "sent" THEN OkResponse(f.id, TRUE)
                       ELSE ErrResponse(f.id, 20, "Unable to submit block"))]
        /\ handled' = Append(handled,
                         [sess |-> s, id |-> f.id, job_id |-> f.job_id,
                          nonce |-> f.nonce, hit |-> (pc[s] = "sent"),
                          cmdIx |-> 0, outIx |-> Len(out[s]) + 1])
        /\ pc' = [pc EXCEPT ![s] = "idle"]
        /\ frame' = [frame EXCEPT ![s] = NoFrame]
        /\ UNCHANGED << cacheVars, pending, pendingLock, recvOpen, reply, returns,
                        resolves, nSubmit, cmd, nodeVars, latest, version, worker,
                        sess, subs, nAccept, callVars >>

\* the read arm sees the end of the stream between two requests
ConnEofIdle(s) == pc[s] = "idle" /\ ConnEof(s)

NextAnswer ==
    \/ BroadcastCall("ok", MaxInserts)
    \/ \E s \in Conns : Accept(s, MaxAccepts)
    \/ \E s \in Conns, r \in Requests :
           ConnSubmitRead(s, r.id, r.job_id, r.nonce, MaxConnSubmits)
    \/ \E s \in Conns : ConnSubmitSend(s)
    \/ \E s \in Conns : ConnSubmitRespond(s)
    \/ \E s \in Conns : ConnEofIdle(s)
    \/ NodeReceive
    \/ ClientRecv

SpecAnswer == InitConn /\ [][NextAnswer]_vars

\* tokio runs a task that is ready: a session inside its handler reaches
\* its next await, the stream hands the node what was sent, and the client
\* task takes what the node answered
FairAnswer ==
    /\ SpecAnswer
    /\ \A s \in Conns : WF_vars(ConnSubmitSend(s)) /\ WF_vars(ConnSubmitRespond(s))
    /\ WF_vars(NodeReceive)
    /\ WF_vars(ClientRecv)

(***************************************************************************)
(* The stratum server with miners that subscribe and stay connected:       *)
(* templates of several difficulties arrive through broadcast and reach    *)
(* the sessions through the watch cell.                                    *)
(***************************************************************************)
NextNotify ==
    \/ \E kind \in DifficultyKinds : BroadcastCall(kind, MaxInserts)
    \/ \E s \in Conns : Accept(s, MaxAccepts)
    \/ \E s \in Conns, i \in SubscribeIds : ConnSubscribe(s, i, MaxSubscribes)
    \/ \E s \in Conns : ConnChanged(s)
    \/ \E s \in Conns : ConnWriteTemplate(s)

SpecNotify == InitConn /\ [][NextNotify]_vars

(***************************************************************************)
(* The acceptor driven once round its 16-bit counter: connections arrive   *)
(* during the first MaxEarlyAccepts accept calls and again from the call   *)
(* that wraps the counter; every call between them fails.                  *)
(***************************************************************************)
\* whether a connection may arrive at the next accept call
AcceptWindow ==
    \/ nAccept < MaxEarlyAccepts
    \/ nAccept >= 2 ^ WorkerBits - 1

\* an accept call that returns a connection
AcceptInWindow(s) == AcceptWindow /\ Accept(s, 2 ^ WorkerBits + MaxLateAccepts)

NextWorkers ==
    \/ \E s \in Conns : AcceptInWindow(s)
    \/ AcceptError(2 ^ WorkerBits + MaxLateAccepts)
    \/ \E s \in Conns : ConnEof(s)

SpecWorkers == InitConn /\ [][NextWorkers]_vars

(***************************************************************************)
(* The cache driven past its 256 slots: every insert succeeds, and one     *)
(* task submits.                                                           *)
(***************************************************************************)
NextWrap ==
    \/ Insert("ok", JobSlots + MaxWrapped)
    \/ \E r \in Requests : SubmitRead(1, r.id, r.job_id, r.nonce, MaxWrapSubmits)
    \/ SubmitPush(1)
    \/ SubmitSend(1)

SpecWrap == InitJobs /\ [][NextWrap]_vars

(***************************************************************************)
(* The ids of the cache: inserts past its 256 slots, some of which fail.   *)
(***************************************************************************)
NextIds ==
    \E kind \in TemplateKinds :
        /\ kind # "ok" => nInsert - nInserted < MaxFailedInserts
        /\ kind = "ok" => nInserted < JobSlots + MaxWrapped
        /\ Insert(kind, JobSlots + MaxWrapped + MaxFailedInserts)

SpecIds == InitJobs /\ [][NextIds]_vars

(***************************************************************************)
(* Properties                                                              *)
(***************************************************************************)
\* the SubmitBlock payloads on the command channel, in the order sent
SubmitBlocks == SelectSeq(cmd, LAMBDA p : p.type = "SubmitBlock")

\* the resolve_pending calls that found an entry, in the order made
Popped == SelectSeq(resolves, LAMBDA r : r.found)

\* the results addressed to caller c while its receiver existed
DeliveredTo(c) ==
    LET mine == SelectSeq(resolves, LAMBDA r : r.found /\ r.to = c /\ r.open)
    IN  [k \in 1..Len(mine) |-> PendingResult(mine[k].id, mine[k].error)]

\* C1: for every interleaving of submits by several tasks, the k-th
\* resolve_pending call that pops an entry answers the k-th SubmitBlock sent
\* on the command channel: it is addressed to the reply channel of the task
\* that sent that block and carries the rpc id of that submit (calls that
\* find the FIFO empty pop nothing and are not counted).
C1_AckOrder ==
    \A k \in 1..Len(Popped) :
        /\ k <= Len(SubmitBlocks)
        /\ Popped[k].to = SubmitBlocks[k].origin.by
        /\ Popped[k].id = SubmitBlocks[k].origin.id
        /\ Popped[k].open =>
               \E i \in 1..Len(reply[Popped[k].to]) :
                   reply[Popped[k].to][i] = PendingResult(Popped[k].id, Popped[k].error)

\* two tasks submitted with different rpc ids, the second task's block went
\* upstream first, and both were answered
C1_Witness ==
    /\ Len(Popped) >= 2
    /\ SubmitBlocks[1].origin.by = 2
    /\ SubmitBlocks[2].origin.by = 1
    /\ SubmitBlocks[1].origin.id # SubmitBlocks[2].origin.id
    /\ reply[1] # << >>
    /\ reply[2] # << >>

\* C5: when insert returns JobParams with id i, slot jobs[i] holds the
\* template just inserted, also after the 256th insert: after 257 inserts
\* job id 0 names the 257th template and a submit for job 0 sends a block
\* built from it.
C5_SlotHoldsInserted ==
    /\ IsSome(lastInsert) =>
           jobs[Unwrap(lastInsert).id + 1] = Template(nInsert, "ok")
    /\ (nInsert > JobSlots /\ nInsert <= 2 * JobSlots)
           => jobs[1] = Template(JobSlots + 1, "ok")
    /\ \A k \in 1..Len(SubmitBlocks) :
           LET o == SubmitBlocks[k].origin
           IN  (o.job_id = 0 /\ o.wrapped /\ nInsert <= 2 * JobSlots)
                   => SubmitBlocks[k].block.body = JobSlots + 1

\* C6: no step of a submit call changes next or jobs, whether the call
\* returns true or false.
C6_SubmitKeepsCache ==
    [][ ((\E c \in Callers : pc'[c] # pc[c]) \/ returns' # returns)
            => (jobs' = jobs /\ next' = next) ]_vars

\* one submit returned true for a cached template and one returned false
C6_Witness ==
    /\ \E i \in 1..Len(returns) : returns[i].ok
    /\ \E i \in 1..Len(returns) : ~returns[i].ok
    /\ jobs # << >>

\* C7, whatever the state of the channel: each submit that returned true
\* placed exactly one SubmitBlock on the command channel.
C7_TrueMeansSent ==
    \A c \in Callers :
        Cardinality({k \in 1..Len(SubmitBlocks) : SubmitBlocks[k].origin.by = c})
          = Cardinality({i \in 1..Len(returns) : returns[i].by = c /\ returns[i].ok})

\* C7, for a live channel: each submit that returned true while the receiver
\* of the command channel was alive placed exactly one SubmitBlock on it,
\* a submit that returned true after the receiver was gone placed none, and
\* every block placed is the template cached at jobs[job_id] with only
\* header.nonce replaced by the submitted nonce.
C7_SubmitSendsTemplate ==
    /\ \A c \in Callers :
           Cardinality({k \in 1..Len(SubmitBlocks) : SubmitBlocks[k].origin.by = c})
             = Cardinality({i \in 1..Len(returns) : returns[i].by = c /\ returns[i].sent})
    /\ \A i \in 1..Len(returns) : returns[i].sent => returns[i].ok
    /\ \A k \in 1..Len(SubmitBlocks) :
           LET b == SubmitBlocks[k].block
               o == SubmitBlocks[k].origin
               t == jobs[o.job_id + 1]
           IN  /\ o.job_id + 1 <= Len(jobs)
               /\ b.body = t.body
               /\ IsSome(b.header)
               /\ Unwrap(b.header).nonce = o.nonce
               /\ Unwrap(b.header).hex = Unwrap(t.header).hex
               /\ DOMAIN b = DOMAIN t
               /\ DOMAIN Unwrap(b.header) = DOMAIN Unwrap(t.header)
               /\ ~SubmitBlocks[k].allow_non_daa_blocks

\* a submit for the second slot with nonce 2 returned true and its block is
\* on the channel, and a later submit returned true with the receiver gone
C7_Witness ==
    /\ \E i \in 1..Len(returns) :
           /\ returns[i].sent
           /\ returns[i].job_id = 1
           /\ returns[i].nonce = 2
    /\ \E i \in 1..Len(returns) : returns[i].ok /\ ~returns[i].sent
    /\ Len(SubmitBlocks) = 1

\* C9: a resolve_pending call that finds the FIFO empty delivers nothing,
\* leaves the FIFO empty and the cache unchanged, and leaves the mutex free,
\* so later submits and acknowledgements go through.
C9_EmptyResolve ==
    [][ (Len(resolves') = Len(resolves) + 1 /\ pending = << >>)
            => /\ pending' = << >>
               /\ reply' = reply
               /\ jobs' = jobs /\ next' = next
               /\ cmd' = cmd
               /\ ~resolves'[Len(resolves')].found
               /\ pendingLock' = 0 ]_vars

\* a call on the empty FIFO was followed by a submit whose acknowledgement
\* was delivered
C9_Witness ==
    /\ Len(resolves) = 2
    /\ ~resolves[1].found
    /\ resolves[2].found /\ resolves[2].open
    /\ reply[resolves[2].to] # << >>

\* C10: the acknowledgement for a submit whose task has ended is popped and
\* dropped: it reaches no reply channel, and every reply channel holds
\* exactly the results of the entries that named it while its receiver
\* existed, in order; later acknowledgements keep answering the submit at
\* the front of the FIFO.
C10_DroppedAck ==
    /\ \A c \in Callers : reply[c] = DeliveredTo(c)
    /\ \A k \in 1..Len(Popped) :
           /\ ~Popped[k].open => ~recvOpen[Popped[k].to]
           /\ recvOpen[Popped[k].to] => Popped[k].open
           /\ k <= Len(SubmitBlocks) /\ Popped[k].to = SubmitBlocks[k].origin.by

\* a task ended with its submit pending, its acknowledgement was dropped, and
\* the next acknowledgement reached the other task
C10_Witness ==
    /\ Len(Popped) = 2
    /\ ~Popped[1].open
    /\ Popped[2].open
    /\ Popped[2].to # Popped[1].to
    /\ reply[Popped[1].to] = << >>
    /\ reply[Popped[2].to] = << PendingResult(Popped[2].id, Popped[2].error) >>

\* the SubmitBlock payloads among the first n payloads of the command channel
SentBefore(n) ==
    Len(SelectSeq(SubSeq(cmd, 1, n), LAMBDA p : p.type = "SubmitBlock"))

\* the message a rejecting acknowledgement carries
AckMessage(a) == IF IsSome(a.error) THEN Unwrap(a.error) ELSE a.reject_reason

\* an acknowledgement that accepts the block
AckAccepts(a) == a.reject_reason = "None" /\ ~IsSome(a.error)

\* C2: every SubmitBlockResponse the upstream client has received caused
\* exactly one resolve_pending call, in order, whose error is absent exactly
\* when reject_reason is None and no error is present and is an error
\* message otherwise.
C2_AckResolves ==
    /\ Len(resolves) = Len(acks)
    /\ \A k \in 1..Len(acks) :
           k <= Len(resolves) =>
               /\ (resolves[k].error = None) <=> AckAccepts(acks[k])
               /\ ~AckAccepts(acks[k]) =>
                      resolves[k].error = Some(AckMessage(acks[k]))

\* the lines of connection s that answer a mining.submit: the responses that
\* are not the answer to a mining.subscribe
SubmitLines(s) ==
    { n \in 1..Len(out[s]) :
          /\ "method" \notin DOMAIN out[s][n]
          /\ \A k \in 1..Len(subs) : ~(subs[k].sess = s /\ subs[k].outIx = n) }

\* C3: a session that handled a mining.submit whose submit returned true has
\* written no response with that request's id before the node's
\* acknowledgement for that block was received, and at most one response per
\* request.
C3_NoResponseBeforeAck ==
    /\ \A i \in 1..Len(handled) :
           LET h == handled[i]
           IN  (h.hit /\ h.cmdIx > 0 /\ h.outIx <= Len(out[h.sess]))
                   => SentBefore(h.cmdIx) <= Len(acks)
    /\ \A i, j \in 1..Len(handled) :
           (handled[i].sess = handled[j].sess /\ handled[i].outIx = handled[j].outIx)
               => i = j
    /\ \A s \in Conns :
           Cardinality(SubmitLines(s))
               <= Cardinality({i \in 1..Len(handled) : handled[i].sess = s})

\* C4: the response written for a submitted block whose acknowledgement has
\* arrived is result true exactly when the node accepted the block, and an
\* error with code 20 and the node's message otherwise; every such response
\* on a connection answers a submit of that connection's session and echoes
\* its request id.
C4_ResponseFollowsAck ==
    /\ \A i \in 1..Len(handled) :
           LET h == handled[i]
               k == SentBefore(h.cmdIx)
           IN  (h.hit /\ k >= 1 /\ k <= Len(acks) /\ h.outIx <= Len(out[h.sess]))
                   => out[h.sess][h.outIx] =
                          IF AckAccepts(acks[k])
                          THEN OkResponse(h.id, TRUE)
                          ELSE ErrResponse(h.id, 20, AckMessage(acks[k]))
    /\ \A s \in Conns : \A n \in SubmitLines(s) :
           \E i \in 1..Len(handled) :
               /\ handled[i].sess = s
               /\ handled[i].outIx = n
               /\ out[s][n].id = handled[i].id

\* C8: a mining.submit whose job_id names no slot of the cache pushes
\* nothing onto the pending FIFO, sends nothing on the command channel,
\* leaves the cache as it was, and the session writes at once the error
\* (20, "Unable to submit block") with the request's id, on its own
\* connection only.
C8_MissingJob ==
    [][ (Len(handled') = Len(handled) + 1
           /\ handled'[Len(handled')].job_id >= Len(jobs))
            => LET h == handled'[Len(handled')]
               IN  /\ ~h.hit
                   /\ cmd' = cmd
                   /\ pending' = pending
                   /\ jobs' = jobs /\ next' = next
                   /\ out' = [out EXCEPT ![h.sess] =
                                 Append(@, ErrResponse(h.id, 20,
                                                       "Unable to submit block"))]
       ]_vars

\* with one template cached, a submit for job 1 was answered by the error and
\* nothing went upstream
C8_Witness ==
    /\ Len(jobs) = 1
    /\ \E i \in 1..Len(handled) :
           LET h == handled[i]
           IN  /\ h.job_id = 1
               /\ ~h.hit
               /\ out[h.sess][h.outIx]
                      = ErrResponse(h.id, 20, "Unable to submit block")
    /\ SubmitBlocks = << >>

\* the sessions alive in this state
Alive == {s \in Conns : sess[s].state \in {"open"} \cup InTemplate}

\* C11: no two sessions alive at the same time have the same worker id.
C11_WorkersDistinct ==
    \A s, t \in Alive : s # t => sess[s].worker # sess[t].worker

\* C12: the worker counter is nonzero after every accept call, and every
\* session was spawned with the nonzero value the counter had at its accept,
\* also after the counter has wrapped past 65535.
C12_WorkerNonzero ==
    /\ nAccept > 0 => worker # 0
    /\ worker < 2 ^ WorkerBits
    /\ \A s \in Conns :
           sess[s].state # "none" =>
               /\ sess[s].worker # 0
               /\ sess[s].worker < 2 ^ WorkerBits
    /\ nAccept = 2 ^ WorkerBits => worker = 1

\* a session was spawned by the accept call that wrapped the counter
C12_Witness ==
    /\ nAccept = 2 ^ WorkerBits
    /\ sess[2].state = "open"
    /\ sess[2].worker = 1

\* the lines a step appends to the connection of session s
Written(s) == SubSeq(out'[s], Len(out[s]) + 1, Len(out'[s]))

\* whether a line is a request with the given method
IsRequest(line, method) == "method" \in DOMAIN line /\ line.method = method

\* whether session s has written a mining.notify
HasNotified(s) == \E i \in 1..Len(out[s]) : IsRequest(out[s][i], "mining.notify")

\* what every mining.subscribe writes whatever the session's history: the
\* response and the set_extranonce request in one step, then write_template
\* with no other write of this session in between, whose lines are nothing
\* for an empty cell and else the mining.notify for the job now in the cell,
\* followed by at most a mining.set_difficulty
SubscribeWrites(s) ==
    /\ (Len(subs') = Len(subs) + 1 /\ subs'[Len(subs')].sess = s) =>
           /\ Written(s) = << OkResponse(subs'[Len(subs')].id, TRUE),
                              Request(sess[s].id + 1, "set_extranonce",
                                      << Hex(sess[s].worker, 2), 6 >>) >>
           /\ sess[s].worker # 0
           /\ sess'[s].state = "answering"
           /\ sess'[s].subscribed
    /\ (sess[s].state = "answering" /\ sess'[s] # sess[s]) =>
           /\ sess'[s].state = "open"
           /\ IF latest = None
              THEN Written(s) = << >>
              ELSE /\ Len(Written(s)) \in {1, 2}
                   /\ Written(s)[1] = Request(sess[s].id + 1, "mining.notify",
                                              NotifyParams(Unwrap(latest)))
                   /\ Len(Written(s)) = 2 =>
                          /\ IsRequest(Written(s)[2], "mining.set_difficulty")
                          /\ Written(s)[2].id = sess[s].id + 2
    /\ (sess[s].state = "answering" /\ sess'[s] = sess[s]) => out'[s] = out[s]

\* C13, for every mining.subscribe: the response with the request's id, the
\* set_extranonce request for [hex(worker), 6] and then, when the cell holds
\* a job, the mining.notify for it followed by a mining.set_difficulty, with
\* nothing between them.
C13_SubscribeAlwaysSetsDifficulty ==
    [][ \A s \in Conns :
            /\ SubscribeWrites(s)
            /\ (sess[s].state = "answering" /\ sess'[s] # sess[s] /\ latest # None)
                   => Len(Written(s)) = 2 ]_vars

\* C13, for the first job a session announces: as above, where the
\* mining.set_difficulty is required after the mining.notify when that notify
\* is the first one the session writes; a later mining.subscribe of the same
\* session gets the response, the set_extranonce and the mining.notify, with
\* or without a mining.set_difficulty.
C13_SubscribeSequence ==
    [][ \A s \in Conns :
            /\ SubscribeWrites(s)
            /\ (sess[s].state = "answering" /\ sess'[s] # sess[s] /\ latest # None
                  /\ ~HasNotified(s))
                   => Len(Written(s)) = 2 ]_vars

\* a session subscribed with a job in the cell and wrote the four lines, and
\* a session that subscribed again wrote three
C13_Witness ==
    \E s \in Conns :
        /\ Len(out[s]) = 7
        /\ sess[s].state = "open"
        /\ out[s][1] = OkResponse(3, TRUE)
        /\ IsRequest(out[s][2], "set_extranonce")
        /\ IsRequest(out[s][3], "mining.notify")
        /\ IsRequest(out[s][4], "mining.set_difficulty")
        /\ out[s][5] = OkResponse(3, TRUE)
        /\ IsRequest(out[s][6], "set_extranonce")
        /\ IsRequest(out[s][7], "mining.notify")

\* C14: a session that has handled no mining.subscribe has written no
\* mining.notify and no mining.set_difficulty, and its watch arm, observing a
\* change of the cell while subscribed is false, marks the version seen and
\* writes nothing.
C14_QuietUntilSubscribed ==
    [][ \A s \in Conns :
            /\ ~sess'[s].subscribed =>
                   /\ \A i \in 1..Len(out'[s]) :
                          /\ ~IsRequest(out'[s][i], "mining.notify")
                          /\ ~IsRequest(out'[s][i], "mining.set_difficulty")
                   /\ \A i \in 1..Len(subs') : subs'[i].sess # s
            /\ (~sess[s].subscribed /\ sess'[s].seen # sess[s].seen) =>
                   /\ out'[s] = out[s]
                   /\ sess'[s].state = "open"
                   /\ ~sess'[s].subscribed ]_vars

\* a session that never subscribed has seen a job arrive and written nothing
C14_Witness ==
    \E s \in Conns :
        /\ sess[s].state = "open"
        /\ ~sess[s].subscribed
        /\ latest # None
        /\ sess[s].seen = version
        /\ out[s] = << >>

\* the difficulty of the job a session announced last, 0 before the first
LastDifficulty(s) ==
    IF sess[s].notified = None THEN U64(0, 0)
    ELSE Unwrap(sess[s].notified).difficulty

\* C15: each write_template that announces a job sends a
\* mining.set_difficulty after the mining.notify exactly when the job's
\* difficulty differs from the one the session announced last, and then
\* records the job's difficulty; this for the first job and for every later
\* one.
C15_DifficultyFollowsJob ==
    [][ \A s \in Conns :
            (sess[s].state \in InTemplate /\ sess'[s].state = "open"
               /\ latest # None) =>
                LET j == Unwrap(latest)
                IN  IF j.difficulty # LastDifficulty(s)
                    THEN /\ Len(Written(s)) = 2
                         /\ IsRequest(Written(s)[1], "mining.notify")
                         /\ IsRequest(Written(s)[2], "mining.set_difficulty")
                         /\ sess'[s].difficulty = Shr32(j.difficulty)
                    ELSE /\ Len(Written(s)) = 1
                         /\ IsRequest(Written(s)[1], "mining.notify") ]_vars

\* the templates named by the mining.notify lines session s has written, in
\* the order written: a template is named by its pre-PoW hash, and templates
\* are numbered in the order they are inserted
RECURSIVE NotifiedIn(_)
NotifiedIn(lines) ==
    IF lines = << >> THEN << >>
    ELSE IF IsRequest(Head(lines), "mining.notify")
         THEN << Head(lines).params[2] >> \o NotifiedIn(Tail(lines))
         ELSE NotifiedIn(Tail(lines))

\* each mining.notify a write_template writes is for the job in the cell at
\* that moment, a job that a successful insert returned
NotifyCarriesCell(s) ==
    (sess[s].state \in InTemplate /\ sess'[s].state = "open" /\ latest # None) =>
        LET j == Unwrap(latest)
        IN  /\ Len(Written(s)) >= 1
            /\ Written(s)[1] = Request(sess[s].id + 1, "mining.notify",
                                       << Hex(j.id, 1), j.pre_pow, j.timestamp >>)
            /\ j.pre_pow \in 1..nInsert
            /\ \A i \in 2..Len(Written(s)) :
                   ~IsRequest(Written(s)[i], "mining.notify")

\* C16, as a subsequence: the jobs a session's successive mining.notify
\* lines name are each later in the order of inserts than the one before,
\* and each mining.notify carries the job in the cell when write_template
\* reads it.
C16_NotifiedSubsequence ==
    [][ \A s \in Conns :
            /\ NotifyCarriesCell(s)
            /\ LET ns == NotifiedIn(out'[s])
               IN  \A i \in 1..Len(ns) - 1 : ns[i] < ns[i + 1] ]_vars

\* C16, in the order of inserts: the jobs a session's successive
\* mining.notify lines name are never earlier in the order of inserts than
\* the one before (one job may be announced more than once), and each
\* mining.notify carries the job in the cell when write_template reads it.
C16_NotifiedInOrder ==
    [][ \A s \in Conns :
            /\ NotifyCarriesCell(s)
            /\ LET ns == NotifiedIn(out'[s])
               IN  \A i \in 1..Len(ns) - 1 : ns[i] <= ns[i + 1] ]_vars

\* a session announced the first job and later the second
C16_Witness ==
    \E s \in Conns :
        LET ns == NotifiedIn(out[s])
        IN  /\ Len(ns) >= 2
            /\ ns[1] = 1
            /\ ns[Len(ns)] = 2
            /\ sess[s].state = "open"

\* what a broadcast does to the cache and the cell: it publishes exactly when
\* insert returns a job, the job insert returned, whose id is the slot
\* insert used; when insert returns nothing the cache and the cell are as
\* they were
BroadcastEffect ==
    nInsert' = nInsert + 1 =>
        IF IsSome(lastInsert')
        THEN /\ latest' = lastInsert'
             /\ version' = version + 1
             /\ Unwrap(latest').id = InsertId(Len(jobs), next)
             /\ next' = WrapInc(Unwrap(latest').id)
        ELSE /\ next' = next
             /\ jobs' = jobs
             /\ latest' = latest
             /\ version' = version

\* C19: broadcast publishes to the cell exactly when insert succeeds, the
\* published JobParams carry the id insert returned, and a failed insert
\* leaves next, jobs and the cell unchanged.
C19_BroadcastPublishesOnSuccess ==
    [][BroadcastEffect]_vars

\* a failed insert after a successful one: the cell still holds the first
\* job and the cache its one template
C19_Witness ==
    /\ nInsert = 2
    /\ lastInsert = None
    /\ latest # None
    /\ Unwrap(latest).id = 0
    /\ version = 1
    /\ Len(jobs) = 1
    /\ next = 1

\* C17: the first three commands placed on the command channel are GetInfo,
\* NotifyNewBlockTemplate and GetBlockTemplate in that order, whatever the
\* sessions that connect and submit meanwhile do: no SubmitBlock is among or
\* before them, main reaches its loop with all three queued unless the
\* client task has already ended, and the node receives the commands in the
\* order of the channel.
C17_StartupCommandsFirst ==
    LET first == << [type |-> "GetInfoRequest"],
                    [type |-> "NotifyNewBlockTemplateRequest"],
                    [type |-> "GetBlockTemplateRequest"] >>
        n     == IF Len(cmd) < 3 THEN Len(cmd) ELSE 3
    IN  /\ SubSeq(cmd, 1, n) = SubSeq(first, 1, n)
        /\ (Started /\ clientUp) => Len(cmd) >= 3
        /\ cmdRead <= Len(cmd)

\* a session submitted while Client::new was still queuing its requests and a
\* session's SubmitBlock was queued later, behind the three
C17_Witness ==
    /\ Len(cmd) = 4
    /\ cmd[4].type = "SubmitBlock"
    /\ Len(handled) = 2
    /\ ~handled[1].hit
    /\ handled[2].cmdIx = 4
    /\ cmdRead = 4

\* C18: a turn of main's loop that takes a NewTemplate message places one
\* GetBlockTemplate command on the command channel and stays in the loop,
\* or, the channel being closed, places nothing and leaves the loop; either
\* way the job cache and the watch cell are as they were.
C18_NewTemplateRequestsOne ==
    [][ (mainUp /\ msgs # << >> /\ msgs' = Tail(msgs)
           /\ Head(msgs).type = "NewTemplate") =>
            /\ IF clientUp
               THEN /\ cmd' = Append(cmd, [type |-> "GetBlockTemplateRequest"])
                    /\ mainUp'
               ELSE /\ cmd' = cmd
                    /\ ~mainUp'
            /\ UNCHANGED << next, jobs, latest, version >> ]_vars

\* main has answered the node's notification with a fourth command, and
\* went on to broadcast the template it got for it
C18_Witness ==
    /\ Len(cmd) = 4
    /\ cmd[4] = GetBlockTemplate
    /\ nNotify = 1
    /\ mainUp
    /\ latest # None
    /\ Unwrap(latest).pre_pow = 2

(***************************************************************************)
(* SpecStartup with the scheduling tokio gives: a task that can take a     *)
(* step is polled, so main gets through Client::new and its message loop   *)
(* and notices the end of the message channel, and a session whose watch   *)
(* sender is gone notices that.                                            *)
(***************************************************************************)
FairStartup ==
    /\ SpecStartup
    /\ WF_vars(StartupSend)
    /\ WF_vars(Supervisor)
    /\ WF_vars(SupervisorEnd)
    /\ \A s \in Conns : WF_vars(ConnShutdown(s))

\* C20: once the upstream client task has ended, main leaves its loop and
\* returns, which closes the watch channel, and every session then gets out
\* of its own loop and ends.
C20_SessionsEndAfterClient ==
    ~clientUp ~> (~mainUp /\ Alive = {})

\* the client task has ended, main has returned and a session that was
\* connected has left its loop
C20_Witness ==
    /\ ~clientUp
    /\ ~mainUp
    /\ \E s \in Conns : sess[s].state = "closed"
    /\ Alive = {}

\* C21: the step in which a session fails changes that session only: every
\* other session and every connection's output are as they were, the
\* acceptor's counter and its count of accepts are untouched and main runs
\* on, and the job cache, the pending FIFO, the command channel and the
\* watch cell are unchanged; and a failed session never stops the acceptor
\* from taking the next connection.
C21_FailureIsLocal ==
    [][ /\ \A s \in Conns :
            (sess[s].state # "failed" /\ sess'[s].state = "failed") =>
                /\ \A t \in Conns \ {s} : sess'[t] = sess[t]
                /\ sess'[s] = [sess[s] EXCEPT !.state = "failed"]
                /\ UNCHANGED << out, worker, nAccept, mainUp, next, jobs,
                                pending, pendingLock, cmd, latest, version >>
        /\ (mainUp' /\ nAccept' < MaxAccepts
              /\ \E t \in Conns : sess'[t].state = "none")
               => (ENABLED (\E t \in Conns : Accept(t, MaxAccepts)))' ]_vars

\* the first session failed while the second ran on, with a template cached
\* and published, and the second has submitted since
C21_Witness ==
    /\ sess[1].state = "failed"
    /\ sess[2].state = "open"
    /\ sess[2].worker = 2
    /\ latest # None
    /\ \E i \in 1..Len(handled) : handled[i].sess = 2 /\ handled[i].hit

\* the requests among the lines of a connection, in the order written
RequestsIn(lines) == SelectSeq(lines, LAMBDA l : "method" \in DOMAIN l)

\* C22: the requests a session has written carry the ids 1, 2, 3, ... in
\* the order written and are set_extranonce, mining.notify or
\* mining.set_difficulty; the session's counter, 0 at the start, is the
\* number of requests written, whatever the number of responses.
C22_RequestIdsCount ==
    \A s \in Conns :
        LET rs == RequestsIn(out[s])
        IN  /\ \A i \in 1..Len(rs) :
                   /\ rs[i].id = i
                   /\ rs[i].method \in {"set_extranonce", "mining.notify",
                                        "mining.set_difficulty"}
            /\ sess[s].id = Len(rs)
            /\ sess[s].state = "none" => sess[s].id = 0

\* a session has written two responses and, around them, five requests with
\* the ids 1 to 5
C22_Witness ==
    \E s \in Conns :
        /\ Len(RequestsIn(out[s])) = 5
        /\ Len(out[s]) = 7
        /\ IsRequest(out[s][4], "mining.set_difficulty") /\ out[s][4].id = 3
        /\ "result" \in DOMAIN out[s][5]
        /\ IsRequest(out[s][6], "set_extranonce") /\ out[s][6].id = 4
        /\ sess[s].id = 5

\* C23: hash(pre_pow = true) of the header of the source test is the
\* expected digest of 32 bytes, which begins 85, 146, 211, 217 and ends 106,
\* 0, 110, 137.
C23_TestVector ==
    (hasher.pc = "ok" /\ hasher.pre_pow /\ hasher.header = Some(TestHeader)) =>
        /\ hasher.result = Some(ExpectedHash)
        /\ SubSeq(Unwrap(hasher.result), 1, 4) = << 85, 146, 211, 217 >>
        /\ SubSeq(Unwrap(hasher.result), 29, 32) = << 106, 0, 110, 137 >>
        /\ Len(Unwrap(hasher.result)) = 32

\* hash(true) has returned for the header of the test
C23_Witness ==
    /\ hasher.pc = "ok"
    /\ hasher.pre_pow
    /\ hasher.header = Some(TestHeader)
    /\ hasher.done = 74
    /\ hasher.result = Some(ExpectedHash)

\* lines 224-231: the digest as four u64, each from eight bytes, the least
\* significant first
PrePowWords(hash) ==
    << WordOfBytes(SubSeq(hash, 1, 8)), WordOfBytes(SubSeq(hash, 9, 16)),
       WordOfBytes(SubSeq(hash, 17, 24)), WordOfBytes(SubSeq(hash, 25, 32)) >>

\* C34: two headers that are equal in every field except timestamp and
\* nonce give the same hash(pre_pow = true) and the same words of pre_pow():
\* the second call returns as the first did, with its digest.
C34_PrePowIgnoresStamp ==
    hasher.prev # None /\ hasher.pre_pow =>
        /\ hasher.pc \in {"hashing", "ok"}
        /\ hasher.pc = "ok" =>
               /\ hasher.result = Some(Unwrap(hasher.prev).result)
               /\ PrePowWords(Unwrap(hasher.result))
                      = PrePowWords(Unwrap(hasher.prev).result)

\* hash(true) has returned for the header of the test and then for the
\* same header with another timestamp and nonce, with the same digest,
\* whose first word begins with the bytes 85 and 146
C34_Witness ==
    /\ hasher.pc = "ok"
    /\ hasher.pre_pow
    /\ hasher.prev # None
    /\ Unwrap(hasher.prev).header = TestHeader
    /\ hasher.header = Some(TestHeaderRestamped)
    /\ TestHeaderRestamped.nonce # TestHeader.nonce
    /\ TestHeaderRestamped.timestamp # TestHeader.timestamp
    /\ hasher.result = Some(ExpectedHash)
    /\ PrePowWords(Unwrap(hasher.result))[1][1] = 85 + 146 * 256

\* the events ClientTask::run sends for one inbound payload
EventsOf(p) ==
    CASE p.type = "GetInfoResponse" -> << [type |-> "Info"] >>
      [] p.type = "NewBlockTemplateNotification" -> << [type |-> "NewTemplate"] >>
      [] p.type = "GetBlockTemplateResponse" ->
             IF p.error = None /\ p.block # None /\ Unwrap(p.block).header # None
             THEN << [type |-> "Template", block |-> Unwrap(p.block)] >>
             ELSE << >>
      [] OTHER -> << >>

\* the client task takes a payload off the stream in this step
Classifies == inbound # << >> /\ inbound' = Tail(inbound)

\* C24: the client emits one event for a GetInfoResponse (Info), for a
\* template response with no error and a block with a header (Template) and
\* for a NewBlockTemplateNotification (NewTemplate); every other payload
\* emits nothing, no event appears without a payload, and the block main
\* hands to insert has a header.
C24_OneEventPerPayload ==
    [][ /\ Classifies => msgs' = msgs \o EventsOf(Head(inbound))
        /\ ~Classifies => Len(msgs') <= Len(msgs)
        /\ \A i \in 1..Len(msgs') :
               msgs'[i].type = "Template" => IsSome(msgs'[i].block.header)
        /\ nInsert' # nInsert =>
               /\ Head(msgs).type = "Template"
               /\ IsSome(Head(msgs).block.header) ]_vars

\* the client has classified the three answers and a notification: Info and
\* NewTemplate were emitted, the template response was swallowed
C24_Witness ==
    /\ clientUp
    /\ cmdRead = Len(StartupCommands)
    /\ inbound = << >>
    /\ nNotify = 1
    /\ nInsert = 0
    /\ msgs = << [type |-> "Info"], [type |-> "NewTemplate"] >>

\* C25: a NotifyNewBlockTemplateResponse with an error ends the client task
\* without an event, and once the task has ended no payload is classified
\* and no event is emitted; one without an error emits nothing and leaves
\* the task running.
C25_SubscribeErrorEndsClient ==
    [][ /\ (Classifies /\ Head(inbound).type = "NotifyNewBlockTemplateResponse") =>
               /\ msgs' = msgs
               /\ clientUp' = (Head(inbound).error = None)
        /\ ~clientUp =>
               /\ ~Classifies
               /\ Len(msgs') <= Len(msgs)
               /\ ~clientUp' ]_vars

\* the refusal has ended the client task: the answer to the request behind
\* it is left on the stream, and main has consumed the one event
C25_Witness ==
    /\ ~clientUp
    /\ cmdRead = Len(StartupCommands)
    /\ Len(inbound) = 1
    /\ Head(inbound).type = "GetBlockTemplateResponse"
    /\ msgs = << >>
    /\ ~mainUp

\* C26: the n-th insert that returns JobParams, counting from 0, returns id
\* n mod 256 and leaves next at (n + 1) mod 256; an insert that returns
\* None leaves next and the cache as they were, so it consumes no id.
C26_IdsCountInserts ==
    [][ nInsert' = nInsert + 1 =>
            IF IsSome(lastInsert')
            THEN /\ Unwrap(lastInsert').id = nInserted % 256
                 /\ next' = (nInserted + 1) % 256
                 /\ nInserted' = nInserted + 1
            ELSE /\ next' = next
                 /\ jobs' = jobs
                 /\ nInserted' = nInserted ]_vars

\* 257 inserts have returned JobParams and one has returned None before the
\* last of them: the 257th got id 0 again
C26_Witness ==
    /\ nInserted = JobSlots + 1
    /\ nInsert = JobSlots + 2
    /\ lastInsert # None
    /\ Unwrap(lastInsert).id = 0
    /\ next = 1

\* C27: the cache never holds more than 256 templates, no step makes it
\* shorter, and the job_id of a submit that found a template, returned or
\* still under way, names a template in every later state.
C27_CacheGrowsToCapacity ==
    [][ /\ Len(jobs') <= 256
        /\ Len(jobs') >= Len(jobs)
        /\ \A k \in 1..Len(returns') :
               returns'[k].ok => IsSome(JobsGet(jobs', returns'[k].job_id))
        /\ \A c \in Callers :
               pc'[c] # "idle" => IsSome(JobsGet(jobs', frame'[c].job_id)) ]_vars

\* the cache is full, one more template has been inserted, and the submit
\* that found job 1 has returned true
C27_Witness ==
    /\ Len(jobs) = JobSlots
    /\ nInserted = JobSlots + 1
    /\ Len(returns) = 1
    /\ returns[1].ok
    /\ returns[1].job_id = 1
    /\ IsSome(JobsGet(jobs, 1))

\* the submit calls that pushed a Pending entry, in the order they returned
Pushed == SelectSeq(returns, LAMBDA r : r.ok)

\* C28, whatever the state of the channel: while no task holds the pending
\* mutex the FIFO is as long as the SubmitBlock commands on the command
\* channel that no resolve_pending has answered, and its i-th entry has the
\* rpc id and the reply channel of the i-th of them.
C28_FifoMatchesCommands ==
    pendingLock = 0 =>
        /\ Len(pending) = Len(SubmitBlocks) - Len(Popped)
        /\ \A i \in 1..Len(pending) :
               /\ Len(Popped) + i <= Len(SubmitBlocks)
               /\ pending[i].id = SubmitBlocks[Len(Popped) + i].origin.id
               /\ pending[i].send = SubmitBlocks[Len(Popped) + i].origin.by

\* C28, for a channel that may have lost its receiver: while no task holds
\* the pending mutex the FIFO is as long as the submits that returned true
\* and that no resolve_pending has answered, its i-th entry has the rpc id
\* and the reply channel of the i-th of them, the SubmitBlock commands on the
\* channel are those of the first of these submits, in order, and while the
\* receiver lives every one of them has its command.
C28_FifoMatchesSubmits ==
    pendingLock = 0 =>
        /\ Len(pending) = Len(Pushed) - Len(Popped)
        /\ \A i \in 1..Len(pending) :
               /\ pending[i].id = Pushed[Len(Popped) + i].id
               /\ pending[i].send = Pushed[Len(Popped) + i].by
        /\ Len(Popped) <= Len(SubmitBlocks)
        /\ Len(SubmitBlocks) <= Len(Pushed)
        /\ \A k \in 1..Len(SubmitBlocks) :
               /\ Pushed[k].sent
               /\ SubmitBlocks[k].origin.id = Pushed[k].id
               /\ SubmitBlocks[k].origin.by = Pushed[k].by
        /\ \A k \in 1..Len(Pushed) : Pushed[k].sent <=> k <= Len(SubmitBlocks)
        /\ clientUp => Len(SubmitBlocks) = Len(Pushed)

\* one submit was sent and answered, the stream ended, and a second submit
\* pushed its entry and returned true with nothing sent
C28_Witness ==
    /\ pendingLock = 0
    /\ ~clientUp
    /\ Len(Popped) = 1
    /\ Len(SubmitBlocks) = 1
    /\ Len(pending) = 1
    /\ Len(Pushed) = 2

\* the responses session s has written that carry rpc id i
ResponsesTo(s, i) ==
    SelectSeq(out[s], LAMBDA l : "method" \notin DOMAIN l /\ l.id = i)

\* the mining.submit requests with rpc id i that session s has handled
HandledBy(s, i) == SelectSeq(handled, LAMBDA h : h.sess = s /\ h.id = i)

\* C29: a mining.submit whose submit returned true is eventually answered on
\* its session by a response with the request's id, and a session never
\* holds more responses with an id than requests it has handled with that
\* id, also after the node has acknowledged every block.
C29_TrueSubmitAnswered ==
    /\ [](\A s \in Conns, r \in Requests :
              Len(ResponsesTo(s, r.id)) = Len(HandledBy(s, r.id)))
    /\ \A s \in Conns, r \in Requests :
           (pc[s] = "sent" /\ frame[s].id = r.id /\ Len(HandledBy(s, r.id)) = 0)
               ~> (/\ Len(HandledBy(s, r.id)) >= 1
                   /\ HandledBy(s, r.id)[1].hit
                   /\ ResponsesTo(s, r.id)[1] = OkResponse(r.id, TRUE))

\* a true submit was answered once, and the node's acknowledgement of its
\* block has reached the client since
C29_Witness ==
    /\ Len(HandledBy(1, 1)) = 1
    /\ HandledBy(1, 1)[1].hit
    /\ ResponsesTo(1, 1) = << OkResponse(1, TRUE) >>
    /\ Len(acks) = 1
    /\ pc[1] = "idle"

\* C30: no task holds the read lock and the pending mutex at once, the
\* mutex is held only by a submit between its push and its send, a held
\* mutex is released, after which resolve_pending can run, insert can run
\* once the readers are gone, and every submit that has started returns.
C30_LocksNeverDeadlock ==
    /\ [](\A c \in Callers : ~(c \in Reading /\ pendingLock = c))
    /\ [](pendingLock # 0 => pendingLock \in Callers /\ pendingLock \notin Reading)
    /\ [](\A c \in Callers : pendingLock = c <=> pc[c] = "pushed")
    /\ [](Reading # {} \/ pendingLock # 0 \/ (\E c \in Callers : pc[c] # "idle")
              => \E c \in Callers : ENABLED (SubmitClone(c) \/ SubmitPush(c) \/ SubmitSend(c)))
    /\ (pendingLock # 0) ~> (pendingLock = 0)
    /\ (Reading # {}) ~> (Reading = {})
    /\ \A c \in Callers : (pc[c] # "idle") ~> (pc[c] = "idle")

\* one task holds the read lock while the other holds the pending mutex, a
\* template is cached and an entry is pending
C30_Witness ==
    /\ pc[1] = "reading"
    /\ pc[2] = "pushed"
    /\ pendingLock = 2
    /\ pending # << >>
    /\ jobs # << >>

(***************************************************************************)
(* The compact target, the difficulty and the U256 operators.              *)
(***************************************************************************)
\* bit k of the mantissa mant shifted left by expt bits
ShiftedBit(mant, expt, k) ==
    /\ k >= expt
    /\ k - expt < MantissaBits
    /\ (mant \div Pow2(k - expt)) % 2 = 1

\* what the decoding of exponent e and mantissa field m is to be: zero for
\* a mantissa above 0x7FFFFF, and else the value with the bits of the
\* mantissa at expt and above, those below bit 256
Decodes(target, mant, expt) ==
    IF mant > 8388607 THEN target = U256Zero
    ELSE \A k \in 0..(NWords * WordBits - 1) :
             U256Bit(target, k) = ShiftedBit(mant, expt, k)

\* C31: for every bits value, with e = bits >> 24 and m = bits & 0xFFFFFF,
\* u256_from_compact_target(bits) is zero when the mantissa (m >> 8*(3-e)
\* for e <= 3, m otherwise) exceeds 0x7FFFFF, and otherwise is the mantissa
\* shifted left by the exponent (0 for e <= 3, 8*(e-3) otherwise) within
\* 256 bits, the bits shifted past bit 255 discarded.
C31_CompactDecode ==
    \A e \in 0..(2 ^ ExponentBits - 1), m \in Mantissas :
        calc.op = "decode" /\ calc.a = Some(U32OfFields(e, m))
            => Decodes(Unwrap(calc.out).value,
                       IF e <= 3 THEN m \div Pow2(8 * (3 - e)) ELSE m,
                       IF e <= 3 THEN 0 ELSE 8 * (e - 3))

\* the greatest positive mantissa with exponent 34 is shifted by 248 bits:
\* its low eight bits are the top byte of the target, the others are lost
C31_Witness ==
    /\ calc.op = "decode"
    /\ calc.a = Some(U32OfFields(34, SignBit - 1))
    /\ Unwrap(calc.out).value = << Zero64, Zero64, Zero64, << 0, 0, 0, 65280 >> >>

\* C32: difficulty is monotonically non-increasing in the target: of two
\* calls that return, the one with the smaller or equal target returns the
\* greater or equal difficulty.
C32_DifficultyMonotone ==
    /\ calc.op = "difficulty"
    /\ calc.prev # None
    /\ Unwrap(calc.prev).op = "difficulty"
    /\ Unwrap(calc.out).kind = "ok"
    /\ Unwrap(Unwrap(calc.prev).out).kind = "ok"
    /\ U256Ge(Unwrap(calc.a), Unwrap(Unwrap(calc.prev).a))
    => ~ Lt64(Unwrap(Unwrap(calc.prev).out).value, Unwrap(calc.out).value)

\* C33: difficulty of a decoded target returns: no value of bits decodes
\* to the all-ones value, so the incremented target is not zero and the
\* division does not panic.
C33_DecodedTargetDivides ==
    /\ calc.op = "decode" => Unwrap(calc.out).value # U256Max
    /\ calc.op = "difficulty" /\ calc.prev # None /\ Unwrap(calc.prev).op = "decode"
           => /\ Unwrap(calc.a) = Unwrap(Unwrap(calc.prev).out).value
              /\ Unwrap(calc.a) # U256Max
              /\ increment(Unwrap(calc.a)) # U256Zero
              /\ Unwrap(calc.out).kind = "ok"

\* the greatest positive mantissa with exponent 32 decodes to 0x7FFFFF
\* shifted by 232 bits, whose difficulty is 2
C33_Witness ==
    /\ calc.op = "difficulty"
    /\ calc.prev # None
    /\ Unwrap(calc.prev).op = "decode"
    /\ Unwrap(calc.prev).a = Some(U32OfFields(32, SignBit - 1))
    /\ U256Bits(Unwrap(calc.a)) = 255
    /\ calc.out = Some(Ok(Word(2)))

\* the division that follows a multiplication divides by its second factor
DividesBack ==
    /\ calc.op = "div"
    /\ calc.prev # None
    /\ Unwrap(calc.prev).op = "mul"
    /\ calc.b = Unwrap(calc.prev).b
    /\ calc.b # Some(U256Zero)

C36_DivisionByZeroPanics ==
    calc.op \in {"div", "rem"} /\ calc.b = Some(U256Zero)
        => calc.out = Some([kind |-> "panic"])

\* zero divided by zero
C36_Witness ==
    /\ calc.op = "div"
    /\ calc.a = Some(U256Zero)
    /\ calc.b = Some(U256Zero)
    /\ calc.out = Some([kind |-> "panic"])

=============================================================================
